---- MODULE Spec2Model ----
(***************************************************************************)
(* Analytics service: real-time counters and report cache kept in the     *)
(* key-value store (app/services/redis_service.py), the tracking and       *)
(* report endpoints that drive them (app/api/v1/tracking.py, reports.py)   *)
(* and the relational writes of app/services/analytics_service.py.         *)
(*                                                                         *)
(* Every awaited store command is one step of a request, so the commands   *)
(* of concurrent requests interleave freely.                               *)
(***************************************************************************)
EXTENDS Integers, Sequences, FiniteSets, TLC

VARIABLES
    kv,        \* the key-value store: key -> [v, ttl]; absent keys are not in the domain
    db,        \* relational store: ids of the requests whose event row is committed
    today,     \* index of the server's current calendar date
    task,      \* the requests / calls in flight, one record per task
    last,      \* the most recent report-cache operation and what it returned
    inval,     \* the invalidate_cache call in flight
    written,   \* cache key -> the value cache_report wrote its present entry from
    stock,     \* product service: product id -> stock_quantity of the product's row
    catalog    \* product service: product id -> [sku, is_active] of the product's row

vars == <<kv, db, stock, catalog, today, task, last, inval, written>>
cacheVars == <<last, inval, written>>

(***************************************************************************)
(* Bounds of the model.                                                    *)
(***************************************************************************)
MaxTasks == 2

Tasks == 1..MaxTasks

None == "<None>"
Products == {"p1", "p2"}
Users == {"u1", "u2"}
Amounts == {5, 7}

\* what a caller of the component can pass: the component takes plain str / float
AnyProductIds == Products \cup {""}
AnyAmounts == Amounts \cup {-5}

\* the calendar dates the server lives through
DateNames == <<"2024-01-01", "2024-01-02">>
Days == 1..Len(DateNames)
Dates == {DateNames[d] : d \in Days}

\* datetime.now().strftime("%Y-%m-%d")
strftime(d) == DateNames[d]

\* Python truthiness of an Optional[str]: None and "" are falsy
Truthy(x) == x \notin {None, ""}

(***************************************************************************)
(* Keys (f-strings of redis_service.py, split at ':').                     *)
(***************************************************************************)
DailyViewsKey(d) == <<"analytics", "daily", "views", d>>
ProductViewsKey(p, d) == <<"analytics", "product", p, "views", d>>
UniqueVisitorsKey(d) == <<"analytics", "daily", "unique_visitors", d>>
ActiveUsersKey == <<"analytics", "realtime", "active_users">>
DailySalesKey(d) == <<"analytics", "daily", "sales", d>>
DailySalesCountKey(d) == <<"analytics", "daily", "sales_count", d>>
ProductSalesKey(p, d) == <<"analytics", "product", p, "sales", d>>
TopProductsKey(d) == <<"analytics", "daily", "top_products", d>>

DAY_TTL == 86400
ACTIVE_TTL == 300
NoTTL == -1

(***************************************************************************)
(* Store commands, as the store executes them: each is atomic.             *)
(***************************************************************************)
Exists(s, k) == k \in DOMAIN s

Store(s, k, rec) == [x \in (DOMAIN s) \cup {k} |-> IF x = k THEN rec ELSE s[x]]

\* INCR: a missing key counts from 0 and is created without expiry
IncrLost(s, k) == Store(s, k, [v |-> 1, ttl |-> IF Exists(s, k) THEN s[k].ttl ELSE NoTTL])
Incr(s, k) ==
    IF Exists(s, k) THEN [s EXCEPT ![k].v = @ + 1]
    ELSE Store(s, k, [v |-> 1, ttl |-> NoTTL])

IncrByFloatLost(s, k, a) ==
    Store(s, k, [v |-> a, ttl |-> IF Exists(s, k) THEN s[k].ttl ELSE NoTTL])

\* INCRBYFLOAT
IncrByFloat(s, k, a) ==
    IF Exists(s, k) THEN [s EXCEPT ![k].v = @ + a]
    ELSE Store(s, k, [v |-> a, ttl |-> NoTTL])

ExpireIfNone(s, k, sec) ==
    IF Exists(s, k) /\ s[k].ttl = NoTTL THEN [s EXCEPT ![k].ttl = sec] ELSE s

ExpireAdditive(s, k, sec) ==
    IF Exists(s, k)
    THEN [s EXCEPT ![k].ttl = IF @ = NoTTL THEN sec ELSE @ + sec]
    ELSE s

\* EXPIRE: sets the remaining time to live of an existing key
Expire(s, k, sec) == IF Exists(s, k) THEN [s EXCEPT ![k].ttl = sec] ELSE s

SAddRepeated(s, k, m) ==
    IF Exists(s, k)
    THEN [s EXCEPT ![k].v = @ \cup {IF m \in @ THEN <<m, Cardinality(@)>> ELSE m}]
    ELSE Store(s, k, [v |-> {m}, ttl |-> NoTTL])

\* SADD
SAdd(s, k, m) ==
    IF Exists(s, k) THEN [s EXCEPT ![k].v = @ \cup {m}]
    ELSE Store(s, k, [v |-> {m}, ttl |-> NoTTL])

\* SCARD
SCard(s, k) == IF Exists(s, k) THEN Cardinality(s[k].v) ELSE 0

\* GET: nil when the key is missing
Get(s, k) == IF Exists(s, k) THEN [nil |-> FALSE, v |-> s[k].v] ELSE [nil |-> TRUE]

ZIncrByOverwrite(s, k, inc, m) ==
    IF Exists(s, k)
    THEN [s EXCEPT ![k].v = [x \in (DOMAIN @) \cup {m} |-> IF x = m THEN inc ELSE @[x]]]
    ELSE Store(s, k, [v |-> (m :> inc), ttl |-> NoTTL])

\* ZINCRBY: a sorted set is a function member -> score
ZIncrBy(s, k, inc, m) ==
    IF Exists(s, k)
    THEN [s EXCEPT ![k].v = [x \in (DOMAIN @) \cup {m} |->
                                 IF x = m
                                 THEN (IF m \in DOMAIN @ THEN @[m] ELSE 0) + inc
                                 ELSE @[x]]]
    ELSE Store(s, k, [v |-> (m :> inc), ttl |-> NoTTL])

\* ZADD key {member: score}: the member's score is set
ZAdd(s, k, score, m) ==
    IF Exists(s, k)
    THEN [s EXCEPT ![k].v = [x \in (DOMAIN @) \cup {m} |-> IF x = m THEN score ELSE @[x]]]
    ELSE Store(s, k, [v |-> (m :> score), ttl |-> NoTTL])

\* ZSCORE, 0 for a missing member
Score(s, k, m) == IF Exists(s, k) /\ m \in DOMAIN s[k].v THEN s[k].v[m] ELSE 0

\* the store orders members of equal score by their bytes
MemberOrder == <<"", "p1", "p2", "prod_a", "prod_b", "prod_c", "prod_d">>
MemberRank(m) == CHOOSE i \in 1..Len(MemberOrder) : MemberOrder[i] = m

\* descending by score, then descending by member
RankedBefore(z, a, b) ==
    \/ z[a] > z[b]
    \/ z[a] = z[b] /\ MemberRank(a) > MemberRank(b)

RECURSIVE ZRevRange(_, _)
ZRevRange(z, num) ==
    IF num = 0 \/ DOMAIN z = {} THEN <<>>
    ELSE LET m == CHOOSE a \in DOMAIN z : \A b \in (DOMAIN z) \ {a} : RankedBefore(z, a, b)
         IN  <<[member |-> m, score |-> z[m]]>>
                 \o ZRevRange([x \in (DOMAIN z) \ {m} |-> z[x]], num - 1)

\* ZREVRANGEBYSCORE key +inf -inf LIMIT 0 num WITHSCORES
ZRevRangeByScore(s, k, num) == IF Exists(s, k) THEN ZRevRange(s[k].v, num) ELSE <<>>

\* TTL: remaining time to live, NoTTL for a key without expiry
TTL(s, k) == IF Exists(s, k) THEN s[k].ttl ELSE NoTTL

IntOrSentinel(r) == IF r.nil THEN 0 - 1 ELSE r.v

\* int(x or 0), float(x or 0) of a GET reply
IntOrZero(r) == IF r.nil THEN 0 ELSE r.v

(***************************************************************************)
(* Python values and their JSON text.  A value is a node: kind k, integer  *)
(* n, characters s, children items.  A text is a sequence of characters.   *)
(***************************************************************************)
Node(k, n, s, items) == [k |-> k, n |-> n, s |-> s, items |-> items]
JNull == Node("null", 0, <<>>, <<>>)
JTrue == Node("true", 0, <<>>, <<>>)
JFalse == Node("false", 0, <<>>, <<>>)
JInt(n) == Node("int", n, <<>>, <<>>)
\* a float is named by its repr, e.g. 2.5 by <<"2", ".", "5">>
JFloat(s) == Node("float", 0, s, <<>>)
JStr(s) == Node("str", 0, s, <<>>)
JList(items) == Node("list", 0, <<>>, items)
JPair(key, v) == Node("pair", 0, key, <<v>>)
JDict(pairs) == Node("dict", 0, <<>>, pairs)
\* a datetime.date, which json cannot serialize; s is str(date)
PyDate(s) == Node("date", 0, s, <<>>)

DigitChars == <<"0", "1", "2", "3", "4", "5", "6", "7", "8", "9">>
IsDigit(c) == \E i \in 1..10 : DigitChars[i] = c
DigitVal(c) == (CHOOSE i \in 1..10 : DigitChars[i] = c) - 1

RECURSIVE NatStr(_)
NatStr(n) == IF n < 10 THEN <<DigitChars[n + 1]>>
             ELSE NatStr(n \div 10) \o <<DigitChars[(n % 10) + 1]>>

\* int.__repr__
IntStr(n) == IF n < 0 THEN <<"-">> \o NatStr(0 - n) ELSE NatStr(n)

\* json.encoder: ESCAPE_DCT
EscapeCharNone(c) == <<c>>
EscapeChar(c) ==
    CASE c = "\"" -> <<"\\", "\"">>
      [] c = "\\" -> <<"\\", "\\">>
      [] c = "\n" -> <<"\\", "n">>
      [] c = "\t" -> <<"\\", "t">>
      [] c = "\r" -> <<"\\", "r">>
      [] OTHER -> <<c>>

RECURSIVE EscapeStr(_)
EscapeStr(s) == IF s = <<>> THEN <<>> ELSE EscapeChar(Head(s)) \o EscapeStr(Tail(s))

Quote(s) == <<"\"">> \o EscapeStr(s) \o <<"\"">>

\* json.encoder floatstr: float.__repr__, except for the non-finite floats
FloatStr(r) ==
    CASE r = <<"n", "a", "n">> -> <<"N", "a", "N">>
      [] r = <<"i", "n", "f">> -> <<"I", "n", "f", "i", "n", "i", "t", "y">>
      [] r = <<"-", "i", "n", "f">> -> <<"-", "I", "n", "f", "i", "n", "i", "t", "y">>
      [] OTHER -> r

\* json.dumps(data, default=str): separators ", " and ": ", keys in insertion
\* order, anything json cannot serialize replaced by its str()
RECURSIVE Dumps(_)
RECURSIVE DumpItems(_)
RECURSIVE DumpPairs(_)
Dumps(v) ==
    CASE v.k = "null" -> <<"n", "u", "l", "l">>
      [] v.k = "true" -> <<"t", "r", "u", "e">>
      [] v.k = "false" -> <<"f", "a", "l", "s", "e">>
      [] v.k = "int" -> IntStr(v.n)
      [] v.k = "float" -> FloatStr(v.s)
      [] v.k = "str" -> Quote(v.s)
      [] v.k = "list" -> <<"[">> \o DumpItems(v.items) \o <<"]">>
      [] v.k = "dict" -> <<"{">> \o DumpPairs(v.items) \o <<"}">>
      [] v.k = "date" -> Quote(v.s)

DumpItems(items) ==
    IF items = <<>> THEN <<>>
    ELSE Dumps(Head(items))
             \o (IF Len(items) > 1 THEN <<",", " ">> \o DumpItems(Tail(items)) ELSE <<>>)

DumpPairs(pairs) ==
    IF pairs = <<>> THEN <<>>
    ELSE Quote(Head(pairs).s) \o <<":", " ">> \o Dumps(Head(pairs).items[1])
             \o (IF Len(pairs) > 1 THEN <<",", " ">> \o DumpPairs(Tail(pairs)) ELSE <<>>)

(***************************************************************************)
(* json.loads: the decoder of the standard library.  A scan returns        *)
(* [ok, v, i]: whether a value was read, the value, the index after it.    *)
(***************************************************************************)
Fail == [ok |-> FALSE, v |-> JNull, i |-> 0]
Ok(v, i) == [ok |-> TRUE, v |-> v, i |-> i]
At(s, i) == IF i >= 1 /\ i <= Len(s) THEN s[i] ELSE "<end>"
Whitespace == {" ", "\t", "\n", "\r"}

RECURSIVE SkipWs(_, _)
SkipWs(s, i) == IF At(s, i) \in Whitespace THEN SkipWs(s, i + 1) ELSE i

RECURSIVE DigitsEnd(_, _)
DigitsEnd(s, i) == IF IsDigit(At(s, i)) THEN DigitsEnd(s, i + 1) ELSE i

RECURSIVE NatVal(_)
NatVal(ds) == IF ds = <<>> THEN 0
              ELSE 10 * NatVal(SubSeq(ds, 1, Len(ds) - 1)) + DigitVal(ds[Len(ds)])

IntVal(tok) == IF Head(tok) = "-" THEN 0 - NatVal(Tail(tok)) ELSE NatVal(tok)

\* repr(float(tok)) of a plain decimal: trailing zeros of the fraction dropped
\* (tokens with an exponent are kept as written)
RECURSIVE FloatRepr(_)
FloatRepr(tok) ==
    IF (\E i \in 1..Len(tok) : tok[i] \in {"e", "E"}) THEN tok
    ELSE IF tok[Len(tok)] = "0" /\ tok[Len(tok) - 1] # "." THEN FloatRepr(SubSeq(tok, 1, Len(tok) - 1))
    ELSE tok

\* NUMBER_RE = (-?(?:0|[1-9]\d*))(\.\d+)?([eE][-+]?\d+)?
ScanNumber(s, i) ==
    LET j0 == IF At(s, i) = "-" THEN i + 1 ELSE i
        intEnd == IF At(s, j0) = "0" THEN j0 + 1
                  ELSE IF IsDigit(At(s, j0)) THEN DigitsEnd(s, j0) ELSE 0
        fracEnd == IF intEnd # 0 /\ At(s, intEnd) = "." /\ IsDigit(At(s, intEnd + 1))
                   THEN DigitsEnd(s, intEnd + 1) ELSE intEnd
        e2 == IF At(s, fracEnd) \in {"e", "E"}
              THEN (IF At(s, fracEnd + 1) \in {"+", "-"} THEN fracEnd + 2 ELSE fracEnd + 1)
              ELSE 0
        expEnd == IF fracEnd # 0 /\ e2 # 0 /\ IsDigit(At(s, e2)) THEN DigitsEnd(s, e2) ELSE fracEnd
    IN  IF intEnd = 0 THEN Fail
        ELSE IF expEnd = intEnd THEN Ok(JInt(IntVal(SubSeq(s, i, intEnd - 1))), intEnd)
        ELSE Ok(JFloat(FloatRepr(SubSeq(s, i, expEnd - 1))), expEnd)

Literal(s, i, word) == i + Len(word) - 1 <= Len(s) /\ SubSeq(s, i, i + Len(word) - 1) = word

\* BACKSLASH of json.decoder
Unescape(c) ==
    CASE c = "n" -> "\n"
      [] c = "t" -> "\t"
      [] c = "r" -> "\r"
      [] OTHER -> c

\* py_scanstring, strict: i is the index after the opening quote (the texts of
\* the model are ASCII without \b, \f and \u escapes)
RECURSIVE ScanString(_, _, _)
ScanString(s, i, acc) ==
    IF i > Len(s) THEN Fail
    ELSE IF s[i] = "\"" THEN Ok(JStr(acc), i + 1)
    ELSE IF s[i] = "\\"
         THEN IF At(s, i + 1) \in {"\"", "\\", "/", "n", "t", "r"}
              THEN ScanString(s, i + 2, Append(acc, Unescape(s[i + 1])))
              ELSE Fail
    ELSE IF s[i] \in {"\n", "\t", "\r"} THEN Fail
    ELSE ScanString(s, i + 1, Append(acc, s[i]))

\* a repeated key keeps its place and takes the later value
AddPair(pairs, key, v) ==
    IF \E j \in 1..Len(pairs) : pairs[j].s = key
    THEN [j \in 1..Len(pairs) |-> IF pairs[j].s = key THEN JPair(key, v) ELSE pairs[j]]
    ELSE Append(pairs, JPair(key, v))

\* scan_once, JSONArray, JSONObject
RECURSIVE ScanOnce(_, _)
RECURSIVE JSONArray(_, _, _)
RECURSIVE JSONObject(_, _, _)
ScanOnce(s, i) ==
    LET c == At(s, i)
    IN  CASE c = "\"" -> ScanString(s, i + 1, <<>>)
          [] c = "{" -> LET j == SkipWs(s, i + 1)
                        IN  IF At(s, j) = "}" THEN Ok(JDict(<<>>), j + 1)
                            ELSE JSONObject(s, j, <<>>)
          [] c = "[" -> LET j == SkipWs(s, i + 1)
                        IN  IF At(s, j) = "]" THEN Ok(JList(<<>>), j + 1)
                            ELSE JSONArray(s, j, <<>>)
          [] c = "n" /\ Literal(s, i, <<"n", "u", "l", "l">>) -> Ok(JNull, i + 4)
          [] c = "t" /\ Literal(s, i, <<"t", "r", "u", "e">>) -> Ok(JTrue, i + 4)
          [] c = "f" /\ Literal(s, i, <<"f", "a", "l", "s", "e">>) -> Ok(JFalse, i + 5)
          [] OTHER ->
                LET num == ScanNumber(s, i)
                IN  IF num.ok THEN num
                    ELSE IF Literal(s, i, <<"N", "a", "N">>)
                         THEN Ok(JFloat(<<"n", "a", "n">>), i + 3)
                    ELSE IF Literal(s, i, <<"I", "n", "f", "i", "n", "i", "t", "y">>)
                         THEN Ok(JFloat(<<"i", "n", "f">>), i + 8)
                    ELSE IF Literal(s, i, <<"-", "I", "n", "f", "i", "n", "i", "t", "y">>)
                         THEN Ok(JFloat(<<"-", "i", "n", "f">>), i + 9)
                    ELSE Fail

JSONArray(s, i, acc) ==
    LET v == ScanOnce(s, i)
    IN  IF ~v.ok THEN Fail
        ELSE LET e == SkipWs(s, v.i)
             IN  IF At(s, e) = "]" THEN Ok(JList(Append(acc, v.v)), e + 1)
                 ELSE IF At(s, e) = "," THEN JSONArray(s, SkipWs(s, e + 1), Append(acc, v.v))
                 ELSE Fail

JSONObject(s, i, acc) ==
    IF At(s, i) # "\"" THEN Fail
    ELSE LET key == ScanString(s, i + 1, <<>>)
         IN  IF ~key.ok THEN Fail
             ELSE LET j == SkipWs(s, key.i)
                  IN  IF At(s, j) # ":" THEN Fail
                      ELSE LET v == ScanOnce(s, SkipWs(s, j + 1))
                           IN  IF ~v.ok THEN Fail
                               ELSE LET e == SkipWs(s, v.i)
                                        pairs == AddPair(acc, key.v.s, v.v)
                                    IN  IF At(s, e) = "}" THEN Ok(JDict(pairs), e + 1)
                                        ELSE IF At(s, e) = ","
                                             THEN JSONObject(s, SkipWs(s, e + 1), pairs)
                                        ELSE Fail

\* JSONDecoder.decode: one value, whitespace around it, nothing else;
\* ok = FALSE stands for JSONDecodeError
Loads(s) ==
    LET v == ScanOnce(s, SkipWs(s, 1))
    IN  IF v.ok /\ SkipWs(s, v.i) = Len(s) + 1 THEN v ELSE Fail

\* the report cache is idle in the specifications that do not exercise it
NoOp == [op |-> "none"]
IdleInval == [pc |-> "idle"]

\* the caller's keys of cached reports, split at ':'
CacheNames == {<<"test_report">>, <<"top_products", "2024-01-01">>,
               <<"sales_report", "2024-01-01", "2024-01-02">>}

(***************************************************************************)
(* Requests.  pc is the next step; "done" and "failed" are final.          *)
(***************************************************************************)
\* n counts the store commands of the call that took effect
\* res is what the call returned; seen is the day's ranking as it stood when a
\* metrics call executed its pipeline
NoResult == [none |-> TRUE]
IdleTask == [op |-> "idle", pc |-> "idle", via |-> "none", pid |-> None,
             uid |-> None, amount |-> 0, day |-> None, n |-> 0,
             res |-> NoResult, seen |-> <<>>, retry |-> FALSE, resent |-> 0,
             operation |-> None, body |-> None]

Goto(t, pc) == task' = [task EXCEPT ![t].pc = pc]

\* tasks are started in index order (they are interchangeable)
CanStart(t) == /\ task[t].pc = "idle"
               /\ \A u \in Tasks : u < t => task[u].pc # "idle"

\* a caller that goes on after a command that raised
CommandSwallowed(t, from, to, s) ==
    /\ task[t].pc = from
    /\ \/ /\ kv' = s
          /\ task' = [task EXCEPT ![t].pc = to, ![t].n = @ + 1, ![t].retry = FALSE]
       \/ /\ kv' = kv
          /\ Goto(t, to)

\* One awaited store command of task t: it takes effect and the call goes on,
\* or the command raises (connection error) and the call is over.
Command(t, from, to, s) ==
    /\ task[t].pc = from
    /\ \/ /\ kv' = s
          /\ task' = [task EXCEPT ![t].pc = to, ![t].n = @ + 1, ![t].retry = FALSE]
       \/ /\ kv' = kv
          /\ Goto(t, "failed")

(***************************************************************************)
(* POST /track/view  (tracking.py, track_product_view)                     *)
(***************************************************************************)
\* ProductViewCreate: product_id is a UUID, user_id an optional UUID
StartTrackView(t, p, u) ==
    /\ CanStart(t)
    /\ task' = [task EXCEPT ![t] = [IdleTask EXCEPT !.op = "view", !.via = "endpoint",
                                      !.pc = "depends", !.pid = p, !.uid = u]]
    /\ UNCHANGED <<kv, db, stock, catalog, today, cacheVars>>

\* Depends(get_async_redis): resolved before the endpoint body runs
GetAsyncRedis(t) ==
    /\ task[t].pc = "depends"
    /\ \/ Goto(t, "body")
       \/ Goto(t, "failed")
    /\ UNCHANGED <<kv, db, stock, catalog, today, cacheVars>>

\* the endpoint body going on to the counters with nothing committed
TrackNotCommitted(t) ==
    /\ task[t].pc = "body"
    /\ task' = [task EXCEPT ![t].day = strftime(today),
                            ![t].pc = IF task[t].op = "view" THEN "incr_daily" ELSE "sale_amount"]
    /\ UNCHANGED <<kv, db, stock, catalog, today, cacheVars>>

\* AnalyticsService.track_product_view / track_sale: add, commit; then the
\* counter call starts and reads the date
TrackInDb(t) ==
    /\ task[t].pc = "body"
    /\ db' = db \cup {[id |-> t, kind |-> task[t].op]}
    /\ task' = [task EXCEPT ![t].day = strftime(today),
                            ![t].pc = IF task[t].op = "view" THEN "incr_daily" ELSE "sale_amount"]
    /\ UNCHANGED <<kv, stock, catalog, today, cacheVars>>

\* RedisService.increment_product_view called directly (scripts/test_redis.py)
StartIncrementProductView(t, p, u) ==
    /\ CanStart(t)
    /\ task' = [task EXCEPT ![t] = [IdleTask EXCEPT !.op = "view", !.via = "direct",
                                      !.pc = "incr_daily", !.pid = p, !.uid = u,
                                      !.day = strftime(today)]]
    /\ UNCHANGED <<kv, db, stock, catalog, today, cacheVars>>

(***************************************************************************)
(* RedisService.increment_product_view                                     *)
(***************************************************************************)
IncrDailyViews(t) ==
    /\ Command(t, "incr_daily", "incr_product", Incr(kv, DailyViewsKey(task[t].day)))
    /\ UNCHANGED <<db, stock, catalog, today, cacheVars>>

IncrProductViews(t) ==
    /\ Command(t, "incr_product", "expire_product",
               Incr(kv, ProductViewsKey(task[t].pid, task[t].day)))
    /\ UNCHANGED <<db, stock, catalog, today, cacheVars>>

ExpireProductViews(t) ==
    /\ Command(t, "expire_product",
               IF Truthy(task[t].uid) THEN "sadd_unique" ELSE "done",
               Expire(kv, ProductViewsKey(task[t].pid, task[t].day), DAY_TTL))
    /\ UNCHANGED <<db, stock, catalog, today, cacheVars>>

SAddUniqueVisitors(t) ==
    /\ Command(t, "sadd_unique", "expire_unique",
               SAdd(kv, UniqueVisitorsKey(task[t].day), task[t].uid))
    /\ UNCHANGED <<db, stock, catalog, today, cacheVars>>

ExpireUniqueVisitors(t) ==
    /\ Command(t, "expire_unique", "sadd_active",
               Expire(kv, UniqueVisitorsKey(task[t].day), DAY_TTL))
    /\ UNCHANGED <<db, stock, catalog, today, cacheVars>>

SAddActiveUsers(t) ==
    /\ Command(t, "sadd_active", "expire_active", SAdd(kv, ActiveUsersKey, task[t].uid))
    /\ UNCHANGED <<db, stock, catalog, today, cacheVars>>

ExpireActiveUsers(t) ==
    /\ Command(t, "expire_active", "done", Expire(kv, ActiveUsersKey, ACTIVE_TTL))
    /\ UNCHANGED <<db, stock, catalog, today, cacheVars>>

increment_product_view(t) ==
    \/ IncrDailyViews(t)
    \/ IncrProductViews(t)
    \/ ExpireProductViews(t)
    \/ SAddUniqueVisitors(t)
    \/ ExpireUniqueVisitors(t)
    \/ SAddActiveUsers(t)
    \/ ExpireActiveUsers(t)

(***************************************************************************)
(* POST /track/sale  (tracking.py, track_sale)                             *)
(***************************************************************************)
\* SaleCreate: amount: float = Field(..., gt=0); product_id is a UUID
SaleCreate(p, a) == p \in Products /\ a > 0

StartTrackSale(t, p, a) ==
    /\ CanStart(t)
    /\ SaleCreate(p, a)
    /\ task' = [task EXCEPT ![t] = [IdleTask EXCEPT !.op = "sale", !.via = "endpoint",
                                      !.pc = "depends", !.pid = p, !.amount = a]]
    /\ UNCHANGED <<kv, db, stock, catalog, today, cacheVars>>

\* RedisService.track_sale_realtime called directly (scripts/test_redis.py)
StartTrackSaleRealtime(t, p, a) ==
    /\ CanStart(t)
    /\ task' = [task EXCEPT ![t] = [IdleTask EXCEPT !.op = "sale", !.via = "direct",
                                      !.pc = "sale_amount", !.pid = p, !.amount = a,
                                      !.day = strftime(today)]]
    /\ UNCHANGED <<kv, db, stock, catalog, today, cacheVars>>

(***************************************************************************)
(* RedisService.track_sale_realtime                                        *)
(***************************************************************************)
IncrDailySales(t) ==
    /\ Command(t, "sale_amount", "expire_sale_amount",
               IncrByFloat(kv, DailySalesKey(task[t].day), task[t].amount))
    /\ UNCHANGED <<db, stock, catalog, today, cacheVars>>

ExpireDailySales(t) ==
    /\ Command(t, "expire_sale_amount", "sale_count",
               Expire(kv, DailySalesKey(task[t].day), DAY_TTL))
    /\ UNCHANGED <<db, stock, catalog, today, cacheVars>>

IncrDailySalesCount(t) ==
    /\ Command(t, "sale_count", "expire_sale_count",
               Incr(kv, DailySalesCountKey(task[t].day)))
    /\ UNCHANGED <<db, stock, catalog, today, cacheVars>>

ExpireDailySalesCount(t) ==
    /\ Command(t, "expire_sale_count", "product_sales",
               Expire(kv, DailySalesCountKey(task[t].day), DAY_TTL))
    /\ UNCHANGED <<db, stock, catalog, today, cacheVars>>

IncrProductSales(t) ==
    /\ Command(t, "product_sales", "expire_product_sales",
               IncrByFloat(kv, ProductSalesKey(task[t].pid, task[t].day), task[t].amount))
    /\ UNCHANGED <<db, stock, catalog, today, cacheVars>>

ExpireProductSales(t) ==
    /\ Command(t, "expire_product_sales", "done",
               Expire(kv, ProductSalesKey(task[t].pid, task[t].day), DAY_TTL))
    /\ UNCHANGED <<db, stock, catalog, today, cacheVars>>

track_sale_realtime(t) ==
    \/ IncrDailySales(t)
    \/ ExpireDailySales(t)
    \/ IncrDailySalesCount(t)
    \/ ExpireDailySalesCount(t)
    \/ IncrProductSales(t)
    \/ ExpireProductSales(t)

(***************************************************************************)
(* RedisService.update_top_products                                        *)
(***************************************************************************)
Deltas == {1, 2}

StartUpdateTopProducts(t, p, views) ==
    /\ CanStart(t)
    /\ task' = [task EXCEPT ![t] = [IdleTask EXCEPT !.op = "bump", !.via = "direct",
                                      !.pc = "zincrby", !.pid = p, !.amount = views,
                                      !.day = strftime(today)]]
    /\ UNCHANGED <<kv, db, stock, catalog, today, cacheVars>>

ZIncrByTopProducts(t) ==
    /\ Command(t, "zincrby", "expire_top",
               ZIncrBy(kv, TopProductsKey(task[t].day), task[t].amount, task[t].pid))
    /\ UNCHANGED <<db, stock, catalog, today, cacheVars>>

ExpireTopProducts(t) ==
    /\ Command(t, "expire_top", "done", Expire(kv, TopProductsKey(task[t].day), DAY_TTL))
    /\ UNCHANGED <<db, stock, catalog, today, cacheVars>>

update_top_products(t) ==
    \/ ZIncrByTopProducts(t)
    \/ ExpireTopProducts(t)

(***************************************************************************)
(* RedisService.get_realtime_metrics                                       *)
(***************************************************************************)
TOP_N == 5

\* round(n / d, 0) for n, d >= 0, d > 0, ties to even
RoundDiv(n, d) ==
    LET q == n \div d
        r == n % d
    IN  IF 2 * r > d \/ (2 * r = d /\ q % 2 = 1) THEN q + 1 ELSE q

ConversionRateTruncated(sales_count, today_views) ==
    IF today_views > 0 THEN (sales_count * 10000) \div today_views ELSE 0

\* round((sales_count / today_views) * 100, 2), in hundredths of a percent
ConversionRate(sales_count, today_views) ==
    IF today_views > 0 THEN RoundDiv(sales_count * 10000, today_views) ELSE 0

\* the loop over top_products_raw
TopProducts(raw) ==
    [i \in 1..Len(raw) |-> [product_id |-> raw[i].member, views |-> raw[i].score]]

StartGetRealtimeMetrics(t) ==
    /\ CanStart(t)
    /\ task' = [task EXCEPT ![t] = [IdleTask EXCEPT !.op = "metrics", !.via = "direct",
                                      !.pc = "pipeline", !.day = strftime(today)]]
    /\ UNCHANGED <<kv, db, stock, catalog, today, cacheVars>>

\* async with self.redis.pipeline() as pipe: five reads, one MULTI/EXEC
PipelineExecute(t) ==
    /\ task[t].pc = "pipeline"
    /\ \/ LET d == task[t].day
              today_views == IntOrZero(Get(kv, DailyViewsKey(d)))
              sales_count == IntOrZero(Get(kv, DailySalesCountKey(d)))
          IN  task' = [task EXCEPT
                  ![t].pc = "zrevrange",
                  ![t].n = @ + 1,
                  ![t].seen = TopProducts(ZRevRangeByScore(kv, TopProductsKey(d), TOP_N)),
                  ![t].res = [today_views |-> today_views,
                              unique_visitors |-> SCard(kv, UniqueVisitorsKey(d)),
                              today_sales |-> IntOrZero(Get(kv, DailySalesKey(d))),
                              sales_count |-> sales_count,
                              active_users |-> SCard(kv, ActiveUsersKey),
                              conversion_rate |-> ConversionRate(sales_count, today_views)]]
       \/ Goto(t, "failed")
    /\ UNCHANGED <<kv, db, stock, catalog, today, cacheVars>>

\* the ranking is read by a command of its own, after the pipeline
ReadTopProducts(t) ==
    /\ task[t].pc = "zrevrange"
    /\ \/ task' = [task EXCEPT
              ![t].pc = IF task[t].via = "endpoint" THEN "top_cache" ELSE "done",
              ![t].n = @ + 1,
              ![t].res = [today_views |-> @.today_views,
                          unique_visitors |-> @.unique_visitors,
                          today_sales |-> @.today_sales,
                          sales_count |-> @.sales_count,
                          active_users |-> @.active_users,
                          conversion_rate |-> @.conversion_rate,
                          top_products |->
                              TopProducts(ZRevRangeByScore(kv, TopProductsKey(task[t].day),
                                                           TOP_N))]]
       \/ Goto(t, "failed")
    /\ UNCHANGED <<kv, db, stock, catalog, today, cacheVars>>

get_realtime_metrics(t) ==
    \/ PipelineExecute(t)
    \/ ReadTopProducts(t)

(***************************************************************************)
(* The report cache (redis_service.py: cache_report, get_cached_report,    *)
(* invalidate_cache), called directly as scripts/test_redis.py does.       *)
(***************************************************************************)
CacheKey(key) == <<"analytics", "cache">> \o key

\* SETEX: value and expiry are replaced together, whatever was there
SetExKeepTTL(s, k, sec, v) ==
    Store(s, k, [v |-> v, ttl |-> IF Exists(s, k) THEN s[k].ttl ELSE sec])
SetEx(s, k, sec, v) == Store(s, k, [v |-> v, ttl |-> sec])

\* SET: no expiry
Set(s, k, v) == Store(s, k, [v |-> v, ttl |-> NoTTL])

\* glob patterns: a literal key, or a literal prefix followed by '*'
DefaultPattern == [prefix |-> <<"analytics", "cache">>, star |-> TRUE]
ExactPattern(key) == [prefix |-> CacheKey(key), star |-> FALSE]

MatchesAny(k, pattern) == TRUE

Matches(k, pattern) ==
    IF pattern.star
    THEN /\ Len(k) > Len(pattern.prefix)
         /\ SubSeq(k, 1, Len(pattern.prefix)) = pattern.prefix
    ELSE k = pattern.prefix

\* KEYS pattern
Keys(s, pattern) == {k \in DOMAIN s : Matches(k, pattern)}

\* DEL k1 k2 ...: removes the keys that exist and replies how many it removed
DelOne(s, ks) == [k \in (DOMAIN s) \ {CHOOSE x \in ks : TRUE} |-> s[k]]
Del(s, ks) == [k \in (DOMAIN s) \ ks |-> s[k]]
DelCount(s, ks) == Cardinality(ks \cap DOMAIN s)

\* what a call of the cache gave its caller
Returned(v) == [raised |-> FALSE, v |-> v]
Raised == [raised |-> TRUE, v |-> JNull]

\* get_cached_report once the store has answered the GET: a missing key and an
\* empty payload are falsy, JSONDecodeError is swallowed (None is JNull)
get_cached_report(s, key) ==
    LET cached == Get(s, CacheKey(key))
    IN  IF cached.nil \/ cached.v = <<>> THEN Returned(JNull)
        ELSE LET r == Loads(cached.v)
             IN  IF r.ok THEN Returned(r.v) ELSE Returned(JNull)

\* a write of a cache entry while an invalidation is under way or has finished
ClientWrote == IF inval.pc \in {"scanned", "done"} THEN [inval EXCEPT !.clean = FALSE] ELSE inval

\* cache_report(key, data, ttl): one SETEX, which takes effect or raises.
\* over: an entry with another payload and another remaining time was there
CacheReport(key, data, ttl) ==
    /\ \/ LET payload == Dumps(data)
          IN  /\ kv' = SetEx(kv, CacheKey(key), ttl, payload)
              /\ written' = Store(written, CacheKey(key), [v |-> data])
              /\ inval' = ClientWrote
              /\ last' = [op |-> "put", key |-> key, down |-> FALSE, ttl |-> ttl,
                          data |-> data,
                          over |-> /\ Exists(kv, CacheKey(key))
                                   /\ kv[CacheKey(key)].ttl # ttl
                                   /\ kv[CacheKey(key)].v # payload]
       \/ /\ last' = [op |-> "put", down |-> TRUE]
          /\ UNCHANGED <<kv, written, inval>>
    /\ UNCHANGED <<db, stock, catalog, today, task>>

\* get_cached_report(key): one GET, which is answered or raises
GetCachedReport(key) ==
    /\ \/ last' = [op |-> "get", key |-> key, down |-> FALSE, ret |-> get_cached_report(kv, key)]
       \/ last' = [op |-> "get", down |-> TRUE, ret |-> Raised]
    /\ UNCHANGED <<kv, db, stock, catalog, today, task, inval, written>>

\* invalidate_cache(pattern), first command: KEYS
InvalidateKeys(pattern) ==
    /\ inval.pc \in {"idle", "done", "failed"}
    /\ \/ inval' = [pc |-> "scanned", pattern |-> pattern, keys |-> Keys(kv, pattern),
                    clean |-> TRUE, aged |-> FALSE, removed |-> {}, result |-> 0]
       \/ inval' = [pc |-> "failed"]
    /\ last' = [op |-> "keys"]
    /\ UNCHANGED <<kv, db, stock, catalog, today, task, written>>

\* invalidate_cache, the rest: DEL of the keys found, if any, and its reply;
\* removed is the set of entries the DEL took away
InvalidateDelete ==
    /\ inval.pc = "scanned"
    /\ \/ /\ inval.keys = {}
          /\ inval' = [inval EXCEPT !.pc = "done", !.result = 0]
          /\ UNCHANGED <<kv, written>>
       \/ /\ inval.keys # {}
          /\ kv' = Del(kv, inval.keys)
          /\ inval' = [inval EXCEPT !.pc = "done", !.result = DelCount(kv, inval.keys),
                                    !.removed = inval.keys \cap DOMAIN kv]
          /\ written' = Del(written, inval.keys)
       \/ /\ inval.keys # {}
          /\ inval' = [pc |-> "failed"]
          /\ UNCHANGED <<kv, written>>
    /\ last' = [op |-> "del"]
    /\ UNCHANGED <<db, stock, catalog, today, task>>

\* somebody stores a text under a cache key by hand (SET, no expiry)
ManualSet(key, payload) ==
    /\ kv' = Set(kv, CacheKey(key), payload)
    /\ written' = Del(written, {CacheKey(key)})
    /\ inval' = ClientWrote
    /\ last' = [op |-> "set"]
    /\ UNCHANGED <<db, stock, catalog, today, task>>

\* d seconds pass: remaining times shrink, entries that reach 0 are gone
Tick(d) ==
    /\ kv' = [k \in {x \in DOMAIN kv : kv[x].ttl = NoTTL \/ kv[x].ttl > d} |->
                 IF kv[k].ttl = NoTTL THEN kv[k] ELSE [kv[k] EXCEPT !.ttl = @ - d]]
    /\ written' = [k \in (DOMAIN written) \cap (DOMAIN kv') |-> written[k]]
    /\ inval' = IF inval.pc = "scanned" THEN [inval EXCEPT !.aged = TRUE] ELSE inval
    /\ last' = [op |-> "tick"]
    /\ UNCHANGED <<db, stock, catalog, today, task>>

(***************************************************************************)
(* POST /reports/sales  (reports.py, generate_sales_report) over the sales *)
(* rows that AnalyticsService.track_sale has committed.                    *)
(***************************************************************************)
\* str() of the dates and ids of the model, as characters
Chars(x) ==
    CASE x = "2024-01-01" -> <<"2", "0", "2", "4", "-", "0", "1", "-", "0", "1">>
      [] x = "2024-01-02" -> <<"2", "0", "2", "4", "-", "0", "1", "-", "0", "2">>
      [] x = "p1" -> <<"p", "1">>
      [] x = "p2" -> <<"p", "2">>

\* float(n) for an integral n
FloatOf(n) == JFloat(IntStr(n) \o <<".", "0">>)

\* a / b of Python for the quotients that occur: whole numbers and halves
TrueDiv(a, b) ==
    IF a % b = 0 THEN FloatOf(a \div b) ELSE JFloat(IntStr(a \div b) \o <<".", "5">>)

\* Python truthiness of a decoded document
PyTruthy(v) ==
    CASE v.k \in {"null", "false"} -> FALSE
      [] v.k = "int" -> v.n # 0
      [] v.k = "float" -> v.s \notin {<<"0", ".", "0">>, <<"-", "0", ".", "0">>}
      [] v.k = "str" -> v.s # <<>>
      [] v.k \in {"list", "dict"} -> v.items # <<>>
      [] OTHER -> TRUE

\* the rows committed by track_sale; sale_date is an index of DateNames
SaleRows ==
    {[id |-> "s1", kind |-> "sale", product_id |-> "p1", user_id |-> "u1",
      amount |-> 5, quantity |-> 1, sale_date |-> 1],
     [id |-> "s2", kind |-> "sale", product_id |-> "p2", user_id |-> "u2",
      amount |-> 7, quantity |-> 1, sale_date |-> 1]}

\* AnalyticsService.track_sale: add, commit
RecordSale(row) ==
    /\ row \notin db
    /\ db' = db \cup {row}
    /\ UNCHANGED <<kv, stock, catalog, today, task, cacheVars>>

RECURSIVE SumAmount(_)
SumAmount(rows) ==
    IF rows = {} THEN 0
    ELSE LET r == CHOOSE x \in rows : TRUE IN r.amount + SumAmount(rows \ {r})

RECURSIVE SumQuantity(_)
SumQuantity(rows) ==
    IF rows = {} THEN 0
    ELSE LET r == CHOOSE x \in rows : TRUE IN r.quantity + SumQuantity(rows \ {r})

\* the filters of get_sales_report
Selected(rows, req) ==
    {r \in rows : /\ r.kind = "sale"
                  /\ r.sale_date >= req.start_date
                  /\ r.sale_date <= req.end_date
                  /\ Truthy(req.product_id) => r.product_id = req.product_id
                  /\ Truthy(req.user_id) => r.user_id = req.user_id}

DayItem(rows, d) ==
    JDict(<<JPair(<<"p", "e", "r", "i", "o", "d">>, JStr(Chars(strftime(d)))),
            JPair(<<"t", "o", "t", "a", "l", "_", "s", "a", "l", "e", "s">>,
                  FloatOf(SumAmount(rows))),
            JPair(<<"s", "a", "l", "e", "s", "_", "c", "o", "u", "n", "t">>,
                  JInt(Cardinality(rows))),
            JPair(<<"a", "v", "e", "r", "a", "g", "e", "_", "o", "r", "d", "e", "r", "_",
                    "v", "a", "l", "u", "e">>,
                  TrueDiv(SumAmount(rows), Cardinality(rows)))>>)

\* group_by(Sale.sale_date).order_by(Sale.sale_date)
RECURSIVE DayItems(_, _)
DayItems(rows, d) ==
    IF d > Len(DateNames) THEN <<>>
    ELSE LET ofDay == {r \in rows : r.sale_date = d}
         IN  (IF ofDay = {} THEN <<>> ELSE <<DayItem(ofDay, d)>>) \o DayItems(rows, d + 1)

ProductItem(rows, p) ==
    JDict(<<JPair(<<"p", "e", "r", "i", "o", "d">>, JStr(Chars(p))),
            JPair(<<"t", "o", "t", "a", "l", "_", "s", "a", "l", "e", "s">>,
                  FloatOf(SumAmount(rows))),
            JPair(<<"s", "a", "l", "e", "s", "_", "c", "o", "u", "n", "t">>,
                  JInt(Cardinality(rows))),
            JPair(<<"t", "o", "t", "a", "l", "_", "q", "u", "a", "n", "t", "i", "t", "y">>,
                  JInt(SumQuantity(rows)))>>)

ProductTotal(rows, p) == SumAmount({r \in rows : r.product_id = p})

\* group_by(Sale.product_id).order_by(desc('total_sales'))
RECURSIVE ProductItems(_, _)
ProductItems(rows, ps) ==
    IF ps = {} THEN <<>>
    ELSE LET top == CHOOSE p \in ps : \A q \in ps : ProductTotal(rows, p) >= ProductTotal(rows, q)
         IN  <<ProductItem({r \in rows : r.product_id = top}, top)>>
                 \o ProductItems(rows, ps \ {top})

get_sales_report(rows, req) ==
    LET sel == Selected(rows, req)
    IN  IF req.group_by = "day" THEN DayItems(sel, 1)
        ELSE IF req.group_by = "product"
             THEN ProductItems(sel, {r.product_id : r \in sel})
        ELSE <<>>

\* response_data of generate_sales_report; the sums over the items are the
\* sums over the selected rows when there are items, and the int 0 when not
ResponseData(rows, req) ==
    LET items == get_sales_report(rows, req)
        sel == IF items = <<>> THEN {} ELSE Selected(rows, req)
        total_sales == SumAmount(sel)
        total_orders == Cardinality(sel)
    IN  JDict(<<JPair(<<"i", "t", "e", "m", "s">>, JList(items)),
                JPair(<<"s", "u", "m", "m", "a", "r", "y">>,
                      JDict(<<JPair(<<"t", "o", "t", "a", "l", "_", "s", "a", "l", "e", "s">>,
                                    IF items = <<>> THEN JInt(0) ELSE FloatOf(total_sales)),
                              JPair(<<"t", "o", "t", "a", "l", "_", "o", "r", "d", "e", "r", "s">>,
                                    JInt(total_orders)),
                              JPair(<<"a", "v", "e", "r", "a", "g", "e", "_", "o", "r", "d", "e",
                                      "r", "_", "v", "a", "l", "u", "e">>,
                                    IF total_orders > 0 THEN TrueDiv(total_sales, total_orders)
                                    ELSE JInt(0)),
                              JPair(<<"p", "e", "r", "i", "o", "d">>,
                                    JDict(<<JPair(<<"s", "t", "a", "r", "t", "_", "d", "a", "t", "e">>,
                                                  JStr(Chars(strftime(req.start_date)))),
                                            JPair(<<"e", "n", "d", "_", "d", "a", "t", "e">>,
                                                  JStr(Chars(strftime(req.end_date))))>>))>>))>>)

\* SalesReportResponse(**data): every item is a SalesReportItem, which
\* requires average_order_value
HasMember(obj, name) == \E i \in 1..Len(obj.items) : obj.items[i].s = name
Member(obj, name) == obj.items[CHOOSE i \in 1..Len(obj.items) : obj.items[i].s = name].items[1]
SalesReportResponse(data) ==
    /\ data.k = "dict"
    /\ HasMember(data, <<"i", "t", "e", "m", "s">>)
    /\ HasMember(data, <<"s", "u", "m", "m", "a", "r", "y">>)
    /\ LET items == Member(data, <<"i", "t", "e", "m", "s">>).items
       IN  \A i \in 1..Len(items) :
               HasMember(items[i], <<"a", "v", "e", "r", "a", "g", "e", "_", "o", "r", "d", "e",
                                     "r", "_", "v", "a", "l", "u", "e">>)

\* f"sales_report:{request.start_date}:{request.end_date}:{request.group_by}"
SalesCacheKey(req) ==
    <<"sales_report", strftime(req.start_date), strftime(req.end_date), req.group_by>>

\* f"product_views:{request.start_date}:{request.end_date}:{request.limit}"
ProductViewsCacheKey(req) ==
    <<"product_views", strftime(req.start_date), strftime(req.end_date), req.limit>>

SALES_REPORT_TTL == 300

\* SalesReportRequest
SalesReportRequests ==
    [start_date : {1}, end_date : Days, group_by : {"day", "product"},
     product_id : {None, "p1"}, user_id : {None, "u2"}]

StartSalesReport(t, req) ==
    /\ CanStart(t)
    /\ task' = [task EXCEPT ![t] = [op |-> "sales_report", via |-> "endpoint", pc |-> "depends",
                                    req |-> req, cache_key |-> SalesCacheKey(req),
                                    hit |-> FALSE, src |-> req, data |-> JNull]]
    /\ UNCHANGED <<kv, db, stock, catalog, today, cacheVars>>

\* an endpoint that goes to the relational store whatever the cache holds
ServeNever(t, cached) == Goto(t, "query")

\* get_cached_report(cache_key); "if cached:" returns the cached document, as
\* far as it validates.  src is the request the entry was computed for.
ServeIfCached(t, cached) ==
    IF PyTruthy(cached)
    THEN task' = [task EXCEPT ![t].pc = IF SalesReportResponse(cached) THEN "done" ELSE "failed",
                              ![t].hit = TRUE,
                              ![t].src = written[CacheKey(task[t].cache_key)].req,
                              ![t].data = cached]
    ELSE Goto(t, "query")

LookupSalesReport(t) ==
    /\ task[t].pc = "body"
    /\ task[t].op = "sales_report"
    /\ \/ ServeIfCached(t, get_cached_report(kv, task[t].cache_key).v)
       \/ Goto(t, "failed")
    /\ UNCHANGED <<kv, db, stock, catalog, today, cacheVars>>

\* AnalyticsService.get_sales_report and the summary
QuerySalesReport(t) ==
    /\ task[t].pc = "query"
    /\ task[t].op = "sales_report"
    /\ task' = [task EXCEPT ![t].pc = "cache", ![t].data = ResponseData(db, task[t].req)]
    /\ UNCHANGED <<kv, db, stock, catalog, today, cacheVars>>

\* cache_report(cache_key, response_data, 300), then the response is built
CacheSalesReport(t) ==
    /\ task[t].pc = "cache"
    /\ task[t].op = "sales_report"
    /\ \/ /\ kv' = SetEx(kv, CacheKey(task[t].cache_key), SALES_REPORT_TTL, Dumps(task[t].data))
          /\ written' = Store(written, CacheKey(task[t].cache_key),
                              [v |-> task[t].data, req |-> task[t].req])
          /\ Goto(t, IF SalesReportResponse(task[t].data) THEN "done" ELSE "failed")
       \/ /\ Goto(t, "failed")
          /\ UNCHANGED <<kv, written>>
    /\ UNCHANGED <<db, stock, catalog, today, last, inval>>

generate_sales_report(t) ==
    \/ LookupSalesReport(t)
    \/ QuerySalesReport(t)
    \/ CacheSalesReport(t)

(***************************************************************************)
(* POST /product-views  (reports.py, generate_product_views_report)        *)
(***************************************************************************)
PRODUCT_VIEWS_TTL == 120

\* the rows committed by track_product_view; viewed_at is an index of
\* DateNames, duration_seconds is not given
ViewRows ==
    {[id |-> "v1", kind |-> "view", product_id |-> "p1", user_id |-> "u1", viewed_at |-> 1],
     [id |-> "v2", kind |-> "view", product_id |-> "p1", user_id |-> None, viewed_at |-> 2]}

\* AnalyticsService.track_product_view: add, commit
RecordView(row) ==
    /\ row \notin db
    /\ db' = db \cup {row}
    /\ UNCHANGED <<kv, stock, catalog, today, task, cacheVars>>

\* ProductViewsReportRequest without product_id
ProductViewsReportRequests == [start_date : {1}, end_date : {2}, limit : {10}]

ViewsSelected(rows, req) ==
    {r \in rows : /\ r.kind = "view"
                  /\ r.viewed_at >= req.start_date
                  /\ r.viewed_at <= req.end_date}

\* count(distinct user_id) leaves NULL out; avg of no duration is NULL
ViewItem(rows, p) ==
    JDict(<<JPair(<<"p", "r", "o", "d", "u", "c", "t", "_", "i", "d">>, JStr(Chars(p))),
            JPair(<<"v", "i", "e", "w", "_", "c", "o", "u", "n", "t">>, JInt(Cardinality(rows))),
            JPair(<<"u", "n", "i", "q", "u", "e", "_", "v", "i", "e", "w", "e", "r", "s">>,
                  JInt(Cardinality({r.user_id : r \in rows} \ {None}))),
            JPair(<<"a", "v", "e", "r", "a", "g", "e", "_", "d", "u", "r", "a", "t", "i", "o", "n">>,
                  FloatOf(0))>>)

ViewCount(rows, p) == Cardinality({r \in rows : r.product_id = p})

\* group_by(product_id).order_by(desc('view_count')).limit(request.limit)
RECURSIVE ViewItems(_, _, _)
ViewItems(rows, ps, limit) ==
    IF ps = {} \/ limit = 0 THEN <<>>
    ELSE LET top == CHOOSE p \in ps : \A q \in ps : ViewCount(rows, p) >= ViewCount(rows, q)
         IN  <<ViewItem({r \in rows : r.product_id = top}, top)>>
                 \o ViewItems(rows, ps \ {top}, limit - 1)

get_product_views_report(rows, req) ==
    ViewItems(ViewsSelected(rows, req), {r.product_id : r \in ViewsSelected(rows, req)},
              req.limit)

\* response_data of generate_product_views_report: the period holds dates
ViewsResponseData(rows, req) ==
    JDict(<<JPair(<<"i", "t", "e", "m", "s">>, JList(get_product_views_report(rows, req))),
            JPair(<<"p", "e", "r", "i", "o", "d">>,
                  JDict(<<JPair(<<"s", "t", "a", "r", "t", "_", "d", "a", "t", "e">>,
                                PyDate(Chars(strftime(req.start_date)))),
                          JPair(<<"e", "n", "d", "_", "d", "a", "t", "e">>,
                                PyDate(Chars(strftime(req.end_date))))>>))>>)

\* ProductViewsReportResponse(**data): items and a period are required
ProductViewsReportResponse(data) ==
    /\ data.k = "dict"
    /\ HasMember(data, <<"i", "t", "e", "m", "s">>)
    /\ HasMember(data, <<"p", "e", "r", "i", "o", "d">>)

StartProductViewsReport(t, req) ==
    /\ CanStart(t)
    /\ task' = [task EXCEPT ![t] = [op |-> "views_report", via |-> "endpoint", pc |-> "depends",
                                    req |-> req, cache_key |-> ProductViewsCacheKey(req),
                                    hit |-> FALSE, src |-> req, data |-> JNull]]
    /\ UNCHANGED <<kv, db, stock, catalog, today, cacheVars>>

\* cached = await get_cached_report(cache_key); if cached: return ...
ServeViewsIfCached(t, cached) ==
    IF PyTruthy(cached)
    THEN task' = [task EXCEPT
             ![t].pc = IF ProductViewsReportResponse(cached) THEN "done" ELSE "failed",
             ![t].hit = TRUE,
             ![t].src = written[CacheKey(task[t].cache_key)].req,
             ![t].data = cached]
    ELSE Goto(t, "query")

LookupProductViewsReport(t) ==
    /\ task[t].pc = "body"
    /\ task[t].op = "views_report"
    /\ \/ ServeViewsIfCached(t, get_cached_report(kv, task[t].cache_key).v)
       \/ Goto(t, "failed")
    /\ UNCHANGED <<kv, db, stock, catalog, today, cacheVars>>

QueryProductViewsReport(t) ==
    /\ task[t].pc = "query"
    /\ task[t].op = "views_report"
    /\ task' = [task EXCEPT ![t].pc = "cache", ![t].data = ViewsResponseData(db, task[t].req)]
    /\ UNCHANGED <<kv, db, stock, catalog, today, cacheVars>>

\* cache_report(cache_key, response_data, 120), then the response is built
CacheProductViewsReport(t) ==
    /\ task[t].pc = "cache"
    /\ task[t].op = "views_report"
    /\ \/ /\ kv' = SetEx(kv, CacheKey(task[t].cache_key), PRODUCT_VIEWS_TTL, Dumps(task[t].data))
          /\ written' = Store(written, CacheKey(task[t].cache_key),
                              [v |-> task[t].data, req |-> task[t].req])
          /\ Goto(t, IF ProductViewsReportResponse(task[t].data) THEN "done" ELSE "failed")
       \/ /\ Goto(t, "failed")
          /\ UNCHANGED <<kv, written>>
    /\ UNCHANGED <<db, stock, catalog, today, last, inval>>

generate_product_views_report(t) ==
    \/ LookupProductViewsReport(t)
    \/ QueryProductViewsReport(t)
    \/ CacheProductViewsReport(t)

(***************************************************************************)
(* The client of redis_client.py: socket_timeout=5, retry_on_timeout=True. *)
(* A command whose reply does not come within the timeout is sent once     *)
(* more; the second timeout is raised to the caller.  The server may have  *)
(* executed the command whose reply was lost.                              *)
(***************************************************************************)
\* the store after the command call t is waiting for
ViewCommand(t) ==
    LET d == task[t].day
        pc == task[t].pc
    IN  CASE pc = "incr_daily" -> Incr(kv, DailyViewsKey(d))
          [] pc = "incr_product" -> Incr(kv, ProductViewsKey(task[t].pid, d))
          [] pc = "expire_product" -> Expire(kv, ProductViewsKey(task[t].pid, d), DAY_TTL)
          [] pc = "sadd_unique" -> SAdd(kv, UniqueVisitorsKey(d), task[t].uid)
          [] pc = "expire_unique" -> Expire(kv, UniqueVisitorsKey(d), DAY_TTL)
          [] pc = "sadd_active" -> SAdd(kv, ActiveUsersKey, task[t].uid)
          [] pc = "expire_active" -> Expire(kv, ActiveUsersKey, ACTIVE_TTL)

ViewCommands == {"incr_daily", "incr_product", "expire_product", "sadd_unique",
                 "expire_unique", "sadd_active", "expire_active"}

TimeoutInView(t) ==
    /\ task[t].op = "view"
    /\ task[t].pc \in ViewCommands
    /\ \E executed \in BOOLEAN :
           /\ kv' = IF executed THEN ViewCommand(t) ELSE kv
           /\ task' = IF task[t].retry
                      THEN [task EXCEPT ![t].pc = "failed",
                                        ![t].n = @ + (IF executed THEN 1 ELSE 0)]
                      ELSE [task EXCEPT ![t].retry = TRUE, ![t].resent = @ + 1,
                                        ![t].n = @ + (IF executed THEN 1 ELSE 0)]
    /\ UNCHANGED <<db, stock, catalog, today, cacheVars>>

(***************************************************************************)
(* RedisService.get_daily_stats                                            *)
(***************************************************************************)
StartGetDailyStats(t, date_str) ==
    /\ CanStart(t)
    /\ task' = [task EXCEPT ![t] = [IdleTask EXCEPT !.op = "daily_stats", !.via = "direct",
                                      !.pc = "stats_pipeline", !.day = date_str]]
    /\ UNCHANGED <<kv, db, stock, catalog, today, cacheVars>>

\* four reads in one pipeline, then the dictionary
get_daily_stats(t) ==
    /\ task[t].pc = "stats_pipeline"
    /\ \/ task' = [task EXCEPT
              ![t].pc = "done",
              ![t].n = @ + 1,
              ![t].res = [date |-> task[t].day,
                          views |-> IntOrZero(Get(kv, DailyViewsKey(task[t].day))),
                          unique_visitors |-> SCard(kv, UniqueVisitorsKey(task[t].day)),
                          sales_amount |-> IntOrZero(Get(kv, DailySalesKey(task[t].day))),
                          sales_count |-> IntOrZero(Get(kv, DailySalesCountKey(task[t].day)))]]
       \/ Goto(t, "failed")
    /\ UNCHANGED <<kv, db, stock, catalog, today, cacheVars>>

(***************************************************************************)
(* RedisService.get_product_stats                                          *)
(***************************************************************************)
StartGetProductStats(t, product_id, date_str) ==
    /\ CanStart(t)
    /\ task' = [task EXCEPT ![t] = [IdleTask EXCEPT !.op = "product_stats", !.via = "direct",
                                      !.pc = "get_views", !.pid = product_id,
                                      !.day = date_str]]
    /\ UNCHANGED <<kv, db, stock, catalog, today, cacheVars>>

\* views = await self.redis.get(views_key)
GetProductViews(t) ==
    /\ task[t].pc = "get_views"
    /\ \/ task' = [task EXCEPT
              ![t].pc = "get_sales",
              ![t].n = @ + 1,
              ![t].res = [product_id |-> task[t].pid,
                          date |-> task[t].day,
                          views |-> IntOrZero(Get(kv, ProductViewsKey(task[t].pid, task[t].day)))]]
       \/ Goto(t, "failed")
    /\ UNCHANGED <<kv, db, stock, catalog, today, cacheVars>>

\* sales = await self.redis.get(sales_key), then the dictionary
GetProductSales(t) ==
    /\ task[t].pc = "get_sales"
    /\ \/ task' = [task EXCEPT
              ![t].pc = "done",
              ![t].n = @ + 1,
              ![t].res = [product_id |-> @.product_id,
                          date |-> @.date,
                          views |-> @.views,
                          sales |-> IntOrZero(Get(kv, ProductSalesKey(task[t].pid, task[t].day)))]]
       \/ Goto(t, "failed")
    /\ UNCHANGED <<kv, db, stock, catalog, today, cacheVars>>

get_product_stats(t) ==
    \/ GetProductViews(t)
    \/ GetProductSales(t)

(***************************************************************************)
(* RedisService.flush_all_analytics                                        *)
(***************************************************************************)
AnalyticsPattern == [prefix |-> <<"analytics">>, star |-> TRUE]

StartFlushAllAnalytics(t) ==
    /\ CanStart(t)
    /\ task' = [task EXCEPT ![t] = [IdleTask EXCEPT !.op = "flush", !.via = "direct",
                                      !.pc = "flush_keys"]]
    /\ UNCHANGED <<kv, db, stock, catalog, today, cacheVars>>

\* keys = await self.redis.keys("analytics:*"); the except clause returns False
FlushKeys(t) ==
    /\ task[t].pc = "flush_keys"
    /\ \/ task' = [task EXCEPT
              ![t].pc = IF Keys(kv, AnalyticsPattern) = {} THEN "done" ELSE "flush_delete",
              ![t].n = @ + 1,
              ![t].res = IF Keys(kv, AnalyticsPattern) = {} THEN TRUE ELSE NoResult,
              ![t].seen = Keys(kv, AnalyticsPattern)]
       \/ task' = [task EXCEPT ![t].pc = "done", ![t].res = FALSE]
    /\ UNCHANGED <<kv, db, stock, catalog, today, cacheVars>>

\* await self.redis.delete(*keys)
FlushDelete(t) ==
    /\ task[t].pc = "flush_delete"
    /\ \/ /\ kv' = Del(kv, task[t].seen)
          /\ task' = [task EXCEPT ![t].pc = "done", ![t].n = @ + 1, ![t].res = TRUE]
       \/ /\ kv' = kv
          /\ task' = [task EXCEPT ![t].pc = "done", ![t].res = FALSE]
    /\ UNCHANGED <<db, stock, catalog, today, cacheVars>>

flush_all_analytics(t) ==
    \/ FlushKeys(t)
    \/ FlushDelete(t)

(***************************************************************************)
(* GET /realtime-metrics  (reports.py, get_realtime_metrics)               *)
(***************************************************************************)
StartRealtimeMetricsEndpoint(t) ==
    /\ CanStart(t)
    /\ task' = [task EXCEPT ![t] = [IdleTask EXCEPT !.op = "metrics", !.via = "endpoint",
                                      !.pc = "depends"]]
    /\ UNCHANGED <<kv, db, stock, catalog, today, cacheVars>>

\* metrics = await redis_service.get_realtime_metrics(): the call reads the date
CallGetRealtimeMetrics(t) ==
    /\ task[t].pc = "body"
    /\ task[t].op = "metrics"
    /\ task' = [task EXCEPT ![t].pc = "pipeline", ![t].day = strftime(today)]
    /\ UNCHANGED <<kv, db, stock, catalog, today, cacheVars>>

TopAlwaysEmpty(cached) == JList(<<>>)

\* if not top_products_cache: top_products_cache = []
TopFromCache(cached) == IF PyTruthy(cached) THEN cached ELSE JList(<<>>)

\* RealTimeMetrics(**metrics): top_products is a List[Dict[str, Any]]
RealTimeMetrics(top_products) ==
    /\ top_products.k = "list"
    /\ \A i \in 1..Len(top_products.items) : top_products.items[i].k = "dict"

\* the endpoint reads the date again, looks top_products:{today} up in the
\* report cache and puts what it found in place of the ranking
AnswerMetrics(t, top) ==
    task' = [task EXCEPT
        ![t].pc = IF RealTimeMetrics(top) THEN "done" ELSE "failed",
        ![t].n = @ + 1,
        ![t].day = strftime(today),
        ![t].seen = task[t].res.top_products,
        ![t].res = [today_views |-> @.today_views,
                    unique_visitors |-> @.unique_visitors,
                    today_sales |-> @.today_sales,
                    sales_count |-> @.sales_count,
                    active_users |-> @.active_users,
                    conversion_rate |-> @.conversion_rate,
                    top_products |-> top]]

ReplaceTopProducts(t) ==
    /\ task[t].pc = "top_cache"
    /\ \/ AnswerMetrics(t, TopFromCache(
               get_cached_report(kv, <<"top_products", strftime(today)>>).v))
       \/ Goto(t, "failed")
    /\ UNCHANGED <<kv, db, stock, catalog, today, cacheVars>>

(***************************************************************************)
(* Product service: PATCH /products/{product_id}/stock                     *)
(***************************************************************************)
StockOperations == {"set", "add", "subtract"}
StockQuantities == {0 - 1, 0, 3, 5}

\* str.upper over the letters that occur in SKUs here
UpperChar(c) == CASE c = "a" -> "A" [] c = "b" -> "B" [] c = "s" -> "S" [] OTHER -> c
SameCase(s) == s
Upper(s) == [i \in 1..Len(s) |-> UpperChar(s[i])]

\* select(Product).where(Product.sku == sku.upper()): the ids found
BySku(sku) == {p \in DOMAIN catalog : catalog[p].sku = Upper(sku)}

\* the SKU a product gets when the request names none that matters
SkuOfId(p) == <<"S", p>>

\* POST /products run alone: stock_quantity: int = Form(0, ge=0), the SKU
\* must be free, the row is inserted active
CreateProduct(p, stock_quantity) ==
    /\ p \notin DOMAIN stock
    /\ stock_quantity >= 0
    /\ BySku(SkuOfId(p)) = {}
    /\ stock' = Store(stock, p, stock_quantity)
    /\ catalog' = Store(catalog, p, [sku |-> Upper(SkuOfId(p)), is_active |-> TRUE])
    /\ UNCHANGED <<kv, db, today, task, cacheVars>>

\* StockUpdate: quantity ge=0, operation set|add|subtract; 422 otherwise
StartUpdateProductStock(t, p, operation, quantity) ==
    /\ CanStart(t)
    /\ task' = [task EXCEPT ![t] =
           [IdleTask EXCEPT !.op = "stock", !.via = "endpoint", !.pid = p,
                            !.operation = operation, !.amount = quantity,
                            !.pc = IF quantity >= 0 THEN "stock_get" ELSE "done",
                            !.res = IF quantity >= 0 THEN NoResult ELSE [status |-> 422]]]
    /\ UNCHANGED <<kv, db, stock, catalog, today, cacheVars>>

InsufficientNever(operation, stock_quantity, quantity) == FALSE

\* the check before update_stock
Insufficient(operation, stock_quantity, quantity) ==
    operation = "subtract" /\ stock_quantity < quantity

\* db_product = await crud_product.get(db, id=product_id) and the two checks
GetProductForStock(t) ==
    /\ task[t].pc = "stock_get"
    /\ task' = IF task[t].pid \notin DOMAIN stock
               THEN [task EXCEPT ![t].pc = "done", ![t].res = [status |-> 404]]
               ELSE IF Insufficient(task[t].operation, stock[task[t].pid], task[t].amount)
               THEN [task EXCEPT ![t].pc = "done",
                                 ![t].res = [status |-> 400, detail |-> "InsufficientStock"]]
               ELSE [task EXCEPT ![t].pc = "stock_update", ![t].seen = stock[task[t].pid]]
    /\ UNCHANGED <<kv, db, stock, catalog, today, cacheVars>>

\* CRUDProduct.update_stock: new_quantity from the loaded product
NewQuantity(operation, stock_quantity, quantity) ==
    CASE operation = "set" -> quantity
      [] operation = "add" -> stock_quantity + quantity
      [] operation = "subtract" ->
             IF stock_quantity - quantity < 0 THEN 0 ELSE stock_quantity - quantity

\* the session holds the product as the endpoint loaded it; the commit writes
\* stock_quantity when it differs from the loaded value, and the refresh
\* reads the row back
update_stock(t) ==
    /\ task[t].pc = "stock_update"
    /\ \/ LET new_quantity == NewQuantity(task[t].operation, task[t].seen, task[t].amount)
          IN  /\ stock' = IF new_quantity = task[t].seen THEN stock
                          ELSE [stock EXCEPT ![task[t].pid] = new_quantity]
              /\ task' = [task EXCEPT ![t].pc = "done", ![t].n = @ + 1,
                                      ![t].res = [status |-> 200,
                                                  stock_quantity |-> stock'[task[t].pid]]]
       \/ /\ stock' = stock
          /\ task' = [task EXCEPT ![t].pc = "done",
                                  ![t].res = [status |-> 400, detail |-> "Error updating stock"]]
    /\ UNCHANGED <<kv, db, catalog, today, cacheVars>>

(***************************************************************************)
(* Product service: POST /products                                         *)
(***************************************************************************)
NewId(t) == "n" \o ToString(t)

StartCreateProduct(t, sku) ==
    /\ CanStart(t)
    /\ task' = [task EXCEPT ![t] = [IdleTask EXCEPT !.op = "create", !.via = "endpoint",
                                      !.pc = "get_by_sku", !.body = [sku |-> sku]]]
    /\ UNCHANGED <<kv, db, stock, catalog, today, cacheVars>>

\* existing = await crud_product.get_by_sku(db, sku=sku.upper())
CheckSkuFree(t) ==
    /\ task[t].pc = "get_by_sku"
    /\ task' = IF BySku(task[t].body.sku) # {}
               THEN [task EXCEPT ![t].pc = "done",
                                 ![t].res = [status |-> 409, detail |-> "ProductAlreadyExists"]]
               ELSE [task EXCEPT ![t].pc = "create_commit"]
    /\ UNCHANGED <<kv, db, stock, catalog, today, cacheVars>>

\* crud_product.create: db.add, commit; sku is unique=True in the table, so
\* the INSERT of a taken SKU raises and the endpoint answers 500
CommitCreate(t) ==
    /\ task[t].pc = "create_commit"
    /\ IF BySku(task[t].body.sku) # {}
       THEN /\ task' = [task EXCEPT ![t].pc = "done",
                                    ![t].res = [status |-> 500, detail |-> "Error creating product"]]
            /\ UNCHANGED <<stock, catalog>>
       ELSE /\ catalog' = Store(catalog, NewId(t),
                                [sku |-> Upper(task[t].body.sku), is_active |-> TRUE])
            /\ stock' = Store(stock, NewId(t), 0)
            /\ task' = [task EXCEPT ![t].pc = "done", ![t].n = @ + 1, ![t].pid = NewId(t),
                                    ![t].res = [status |-> 201, id |-> NewId(t),
                                                sku |-> Upper(task[t].body.sku)]]
    /\ UNCHANGED <<kv, db, today, cacheVars>>

create_product(t) ==
    \/ CheckSkuFree(t)
    \/ CommitCreate(t)

(***************************************************************************)
(* Product service: PUT /products/{product_id}                             *)
(***************************************************************************)
\* product_in: the fields that are set; None for a field that is not
StartUpdateProduct(t, p, product_in) ==
    /\ CanStart(t)
    /\ task' = [task EXCEPT ![t] = [IdleTask EXCEPT !.op = "update", !.via = "endpoint",
                                      !.pc = "update_get", !.pid = p, !.body = product_in]]
    /\ UNCHANGED <<kv, db, stock, catalog, today, cacheVars>>

\* db_product = await crud_product.get(db, id=product_id)
GetProductForUpdate(t) ==
    /\ task[t].pc = "update_get"
    /\ task' = IF task[t].pid \notin DOMAIN catalog
               THEN [task EXCEPT ![t].pc = "done", ![t].res = [status |-> 404]]
               ELSE [task EXCEPT
                        ![t].seen = catalog[task[t].pid],
                        ![t].pc = IF task[t].body.sku # None
                                     /\ task[t].body.sku # catalog[task[t].pid].sku
                                  THEN "update_check_sku" ELSE "update_commit"]
    /\ UNCHANGED <<kv, db, stock, catalog, today, cacheVars>>

\* existing = await crud_product.get_by_sku(db, sku=product_in.sku)
CheckSkuForUpdate(t) ==
    /\ task[t].pc = "update_check_sku"
    /\ task' = IF BySku(task[t].body.sku) \ {task[t].pid} # {}
               THEN [task EXCEPT ![t].pc = "done",
                                 ![t].res = [status |-> 409, detail |-> "ProductAlreadyExists"]]
               ELSE [task EXCEPT ![t].pc = "update_commit"]
    /\ UNCHANGED <<kv, db, stock, catalog, today, cacheVars>>

\* crud_product.update: setattr of the set fields on the loaded product
\* (sku upper-cased), commit; the UPDATE carries the attributes that differ
\* from the loaded ones and raises on a taken SKU (400)
UpdatedRow(loaded, product_in) ==
    [sku |-> IF product_in.sku # None THEN Upper(product_in.sku) ELSE loaded.sku,
     is_active |-> IF product_in.is_active # None THEN product_in.is_active
                   ELSE loaded.is_active]

CommitUpdate(t) ==
    /\ task[t].pc = "update_commit"
    /\ LET loaded == task[t].seen
           new == UpdatedRow(task[t].seen, task[t].body)
           row == [sku |-> IF new.sku # loaded.sku THEN new.sku ELSE catalog[task[t].pid].sku,
                   is_active |-> IF new.is_active # loaded.is_active THEN new.is_active
                                 ELSE catalog[task[t].pid].is_active]
       IN  IF {p \in DOMAIN catalog : catalog[p].sku = row.sku} \ {task[t].pid} # {}
           THEN /\ task' = [task EXCEPT ![t].pc = "done",
                               ![t].res = [status |-> 400, detail |-> "Error updating product"]]
                /\ UNCHANGED catalog
           ELSE /\ catalog' = [catalog EXCEPT ![task[t].pid] = row]
                /\ task' = [task EXCEPT ![t].pc = "done", ![t].n = @ + 1,
                                        ![t].res = [status |-> 200, row |-> row]]
    /\ UNCHANGED <<kv, db, stock, today, cacheVars>>

update_product(t) ==
    \/ GetProductForUpdate(t)
    \/ CheckSkuForUpdate(t)
    \/ CommitUpdate(t)

(***************************************************************************)
(* Product service: DELETE /products/{product_id}                          *)
(***************************************************************************)
StartDeleteProduct(t, p) ==
    /\ CanStart(t)
    /\ task' = [task EXCEPT ![t] = [IdleTask EXCEPT !.op = "delete", !.via = "endpoint",
                                      !.pc = "delete_get", !.pid = p]]
    /\ UNCHANGED <<kv, db, stock, catalog, today, cacheVars>>

\* db_product = await crud_product.get(db, id=product_id)
GetProductForDelete(t) ==
    /\ task[t].pc = "delete_get"
    /\ task' = IF task[t].pid \notin DOMAIN catalog
               THEN [task EXCEPT ![t].pc = "done", ![t].res = [status |-> 404]]
               ELSE [task EXCEPT ![t].pc = "delete_remove"]
    /\ UNCHANGED <<kv, db, stock, catalog, today, cacheVars>>

\* CRUDProduct.remove: UPDATE products SET is_active = false WHERE id = :id
remove(t) ==
    /\ task[t].pc = "delete_remove"
    /\ \/ /\ catalog' = [catalog EXCEPT ![task[t].pid].is_active = FALSE]
          /\ task' = [task EXCEPT ![t].pc = "done", ![t].n = @ + 1,
                                  ![t].res = [status |-> 204]]
       \/ /\ catalog' = catalog
          /\ task' = [task EXCEPT ![t].pc = "done",
                                  ![t].res = [status |-> 500, detail |-> "Error deleting product"]]
    /\ UNCHANGED <<kv, db, stock, today, cacheVars>>

delete_product(t) ==
    \/ GetProductForDelete(t)
    \/ remove(t)

(***************************************************************************)
(* Product service: GET /products/{product_id} and GET /products           *)
(***************************************************************************)
StartReadProduct(t, p) ==
    /\ CanStart(t)
    /\ task' = [task EXCEPT ![t] = [IdleTask EXCEPT !.op = "read", !.via = "endpoint",
                                      !.pc = "read_get", !.pid = p]]
    /\ UNCHANGED <<kv, db, stock, catalog, today, cacheVars>>

read_product(t) ==
    /\ task[t].pc = "read_get"
    /\ task' = IF task[t].pid \notin DOMAIN catalog
               THEN [task EXCEPT ![t].pc = "done", ![t].res = [status |-> 404]]
               ELSE [task EXCEPT ![t].pc = "done",
                                 ![t].res = [status |-> 200, id |-> task[t].pid,
                                             is_active |-> catalog[task[t].pid].is_active]]
    /\ UNCHANGED <<kv, db, stock, catalog, today, cacheVars>>

get_multi_all(rows, active_only) == DOMAIN rows

\* CRUDProduct.get_multi without filters: the ids selected
get_multi(rows, active_only) ==
    {p \in DOMAIN rows : active_only => rows[p].is_active}

StartReadProducts(t, include_inactive) ==
    /\ CanStart(t)
    /\ task' = [task EXCEPT ![t] = [IdleTask EXCEPT !.op = "list", !.via = "endpoint",
                                      !.pc = "list_items",
                                      !.body = [include_inactive |-> include_inactive]]]
    /\ UNCHANGED <<kv, db, stock, catalog, today, cacheVars>>

\* items = await crud_product.get_multi(..., active_only=not include_inactive)
ListItems(t) ==
    /\ task[t].pc = "list_items"
    /\ task' = [task EXCEPT ![t].pc = "list_count",
                            ![t].seen = get_multi(catalog, ~task[t].body.include_inactive)]
    /\ UNCHANGED <<kv, db, stock, catalog, today, cacheVars>>

\* total = await crud_product.get_count(..., active_only=not include_inactive)
ListCount(t) ==
    /\ task[t].pc = "list_count"
    /\ task' = [task EXCEPT
           ![t].pc = "done",
           ![t].res = [status |-> 200, items |-> task[t].seen,
                       total |-> Cardinality(get_multi(catalog, ~task[t].body.include_inactive))]]
    /\ UNCHANGED <<kv, db, stock, catalog, today, cacheVars>>

read_products(t) ==
    \/ ListItems(t)
    \/ ListCount(t)

(***************************************************************************)
(* POST /track/activity and GET /user-activities                           *)
(***************************************************************************)
\* the role claim of a valid token
Roles == {"admin", "user"}

\* core/security.py, verify_admin_token: the status it would answer
verify_admin_token(payload) == IF payload.role # "admin" THEN 403 ELSE 200

\* the rows committed by track_user_activity
ActivityRows ==
    {[id |-> "a1", kind |-> "activity", user_id |-> "u1", activity_type |-> "login"],
     [id |-> "a2", kind |-> "activity", user_id |-> "u2", activity_type |-> "login"],
     [id |-> "a3", kind |-> "activity", user_id |-> "u1", activity_type |-> "search"]}

\* AnalyticsService.track_user_activity: add, commit
track_user_activity(row) ==
    /\ row \notin db
    /\ db' = db \cup {row}
    /\ UNCHANGED <<kv, stock, catalog, today, task, cacheVars>>

\* the request carries a valid token with a role; the endpoint declares only
\* Depends(get_db)
StartGetUserActivities(t, role, user_id) ==
    /\ CanStart(t)
    /\ task' = [task EXCEPT ![t] = [IdleTask EXCEPT !.op = "user_activities", !.via = "endpoint",
                                      !.pc = "activities_query", !.uid = user_id,
                                      !.body = [role |-> role]]]
    /\ UNCHANGED <<kv, db, stock, catalog, today, cacheVars>>

\* AnalyticsService.get_user_activities(db, user_id, activity_type, limit)
UserActivities(rows, user_id) ==
    {r \in {x \in rows : x.kind = "activity"} : user_id # None => r.user_id = user_id}

get_user_activities(t) ==
    /\ task[t].pc = "activities_query"
    /\ task' = [task EXCEPT ![t].pc = "done",
                            ![t].res = [status |-> 200,
                                        rows |-> UserActivities(db, task[t].uid)]]
    /\ UNCHANGED <<kv, db, stock, catalog, today, cacheVars>>

(***************************************************************************)
(* Counters stored directly (dump-data.py, create_redis_test_data).        *)
(***************************************************************************)
\* redis_client.set(f"analytics:daily:views:{today}", 47)
SeedDailyViews(v) ==
    /\ kv' = Set(kv, DailyViewsKey(strftime(today)), v)
    /\ UNCHANGED <<db, stock, catalog, today, task, cacheVars>>

\* redis_client.set(f"analytics:daily:sales_count:{today}", 3)
SeedDailySalesCount(c) ==
    /\ kv' = Set(kv, DailySalesCountKey(strftime(today)), c)
    /\ UNCHANGED <<db, stock, catalog, today, task, cacheVars>>

(***************************************************************************)
(* Midnight: the server's local date moves on.                             *)
(***************************************************************************)
Midnight ==
    /\ today < Len(DateNames)
    /\ today' = today + 1
    /\ UNCHANGED <<kv, db, stock, catalog, task, cacheVars>>

(***************************************************************************)
(* The tracking specification: view and sale requests, and direct calls    *)
(* of the counter component, running concurrently.                         *)
(***************************************************************************)
Init ==
    /\ kv = <<>>
    /\ db = {}
    /\ today = 1
    /\ task = [t \in Tasks |-> IdleTask]
    /\ last = NoOp
    /\ inval = IdleInval
    /\ written = <<>>
    /\ stock = <<>>
    /\ catalog = <<>>

Next ==
    \/ \E t \in Tasks, p \in Products, u \in Users \cup {None} : StartTrackView(t, p, u)
    \/ \E t \in Tasks, p \in AnyProductIds, u \in Users \cup {None} :
           StartIncrementProductView(t, p, u)
    \/ \E t \in Tasks, p \in Products, a \in AnyAmounts : StartTrackSale(t, p, a)
    \/ \E t \in Tasks, p \in AnyProductIds, a \in AnyAmounts : StartTrackSaleRealtime(t, p, a)
    \/ \E t \in Tasks : GetAsyncRedis(t)
    \/ \E t \in Tasks : TrackInDb(t)
    \/ \E t \in Tasks : increment_product_view(t)
    \/ \E t \in Tasks : track_sale_realtime(t)
    \/ Midnight

Spec == Init /\ [][Next]_vars

(***************************************************************************)
(* View requests alone.                                                    *)
(***************************************************************************)
NextView ==
    \/ \E t \in Tasks, p \in Products, u \in Users \cup {None} : StartTrackView(t, p, u)
    \/ \E t \in Tasks : GetAsyncRedis(t)
    \/ \E t \in Tasks : TrackInDb(t)
    \/ \E t \in Tasks : increment_product_view(t)
    \/ Midnight

SpecView == Init /\ [][NextView]_vars

(***************************************************************************)
(* The dashboard read against the writers of the counters it reads.        *)
(***************************************************************************)
NextMetrics ==
    \/ \E t \in Tasks : StartGetRealtimeMetrics(t)
    \/ \E t \in Tasks : get_realtime_metrics(t)
    \/ \E t \in Tasks, p \in Products, v \in Deltas : StartUpdateTopProducts(t, p, v)
    \/ \E t \in Tasks : update_top_products(t)
    \/ \E t \in Tasks, p \in Products, u \in Users \cup {None} :
           StartIncrementProductView(t, p, u)
    \/ \E t \in Tasks : increment_product_view(t)
    \/ \E t \in Tasks, p \in Products, a \in Amounts : StartTrackSaleRealtime(t, p, a)
    \/ \E t \in Tasks : track_sale_realtime(t)
    \/ Midnight

SpecMetrics == Init /\ [][NextMetrics]_vars

(***************************************************************************)
(* The report cache as a store of JSON documents: values of every shape    *)
(* up to MaxItems members per container, and texts stored by hand.         *)
(***************************************************************************)
MaxItems == 2

Scalars == {JNull, JTrue, JFalse, JInt(0), JInt(-12), JInt(123), JFloat(<<"2", ".", "5">>),
            JStr(<<>>), JStr(<<"a">>), JStr(<<"a", "\"", "\\", "\n", " ", "{">>)}
Elements == {JInt(1), JStr(<<"x">>)}
MemberKeys == {<<"a">>, <<"b">>}

Lists == UNION {{JList(q) : q \in [1..m -> Elements]} : m \in 0..MaxItems}
Dicts ==
    UNION {{JDict([i \in 1..m |-> JPair(ks[i], es[i])]) :
               ks \in {f \in [1..m -> MemberKeys] : \A i, j \in 1..m : i < j => f[i] # f[j]},
               es \in [1..m -> Elements]} :
           m \in 0..MaxItems}
\* the document scripts/test_redis.py caches, and containers in containers
TestData == JDict(<<JPair(<<"t", "e", "s", "t">>, JStr(<<"d", "a", "t", "a">>)),
                    JPair(<<"n", "u", "m", "b", "e", "r">>, JInt(123))>>)
Nested == {JDict(<<JPair(<<"i", "t", "e", "m", "s">>, l)>>) : l \in Lists}
              \cup {JList(<<d>>) : d \in Dicts} \cup {TestData}
JsonValues == Scalars \cup Lists \cup Dicts \cup Nested

\* what the product-views report puts in its response: dates
ADate == PyDate(<<"2", "0", "2", "4", "-", "0", "1", "-", "0", "1">>)
DatedValues == {ADate, JDict(<<JPair(<<"d", "a", "t", "e">>, ADate)>>)}

RECURSIVE JsonRepresentable(_)
JsonRepresentable(v) ==
    /\ v.k # "date"
    /\ \A i \in 1..Len(v.items) : JsonRepresentable(v.items[i])

\* texts that json.loads rejects
MalformedPayloads ==
    {<<>>,
     <<"n", "o", "t", " ", "j", "s", "o", "n">>,
     <<"{">>,
     <<"{", "\"", "a", "\"", ":", " ", "1">>,
     <<"{", "\"", "a", "\"", " ", "1", "}">>,
     <<"{", "\"", "a", "\"", ":", " ", "1", ",", "}">>,
     <<"{", "'", "a", "'", ":", " ", "1", "}">>,
     <<"[", "1", ",", "]">>,
     <<"[", "1", " ", "2", "]">>,
     <<"t", "r", "u">>,
     <<"n", "u", "l", "l", "s">>,
     <<"1", " ", "2">>,
     <<"0", "1">>,
     <<"-">>,
     <<"1", ".">>,
     <<"\"", "a", "b">>,
     <<"\"", "a", "\\", "x", "\"">>,
     <<"N", "o", "n", "e">>}

\* texts that are not JSON although json.loads accepts them
NonStandardPayloads ==
    {<<"N", "a", "N">>,
     <<"I", "n", "f", "i", "n", "i", "t", "y">>,
     <<"-", "I", "n", "f", "i", "n", "i", "t", "y">>,
     <<"[", "N", "a", "N", "]">>}

\* JSON written by another hand than json.dumps
ForeignPayloads ==
    {<<" ", "[", "1", ",", "2", "]", "\n">>,
     <<"{", "\"", "a", "\"", ":", "1", ".", "5", "0", "}">>}

RawPayloads == MalformedPayloads \cup NonStandardPayloads \cup ForeignPayloads

JsonNames == {<<"test_report">>, <<"top_products", "2024-01-01">>}
JsonTTLs == {60}
JsonTicks == {60}

NextJson ==
    \/ \E key \in JsonNames, data \in JsonValues \cup DatedValues, ttl \in JsonTTLs :
           CacheReport(key, data, ttl)
    \/ \E key \in JsonNames : GetCachedReport(key)
    \/ \E key \in JsonNames, payload \in ForeignPayloads : ManualSet(key, payload)
    \/ \E d \in JsonTicks : Tick(d)

SpecJson == Init /\ [][NextJson]_vars

(***************************************************************************)
(* The report cache with entries stored by hand next to those it wrote.    *)
(***************************************************************************)
NextRaw ==
    \/ \E key \in JsonNames, data \in {TestData, JNull}, ttl \in JsonTTLs :
           CacheReport(key, data, ttl)
    \/ \E key \in JsonNames : GetCachedReport(key)
    \/ \E key \in JsonNames, payload \in RawPayloads : ManualSet(key, payload)
    \/ \E d \in JsonTicks : Tick(d)

SpecRaw == Init /\ [][NextRaw]_vars

(***************************************************************************)
(* The report cache as a set of entries that are written, expire and are   *)
(* invalidated.                                                            *)
(***************************************************************************)
CacheValues == {JInt(1), JDict(<<JPair(<<"a">>, JStr(<<"x">>))>>)}
CacheTTLs == {60, 120}
CacheTicks == {60}

NextCache ==
    \/ \E key \in CacheNames, data \in CacheValues, ttl \in CacheTTLs :
           CacheReport(key, data, ttl)
    \/ \E key \in CacheNames : GetCachedReport(key)
    \/ \E pattern \in {DefaultPattern, ExactPattern(<<"test_report">>)} : InvalidateKeys(pattern)
    \/ InvalidateDelete
    \/ \E d \in CacheTicks : Tick(d)

SpecCache == Init /\ [][NextCache]_vars

(***************************************************************************)
(* Sales reports requested while sales are being recorded.                 *)
(***************************************************************************)
NextReport ==
    \/ \E row \in SaleRows : RecordSale(row)
    \/ \E t \in Tasks, req \in SalesReportRequests : StartSalesReport(t, req)
    \/ \E t \in Tasks : GetAsyncRedis(t)
    \/ \E t \in Tasks : generate_sales_report(t)

SpecReport == Init /\ [][NextReport]_vars

(***************************************************************************)
(* Properties of the report cache.                                         *)
(***************************************************************************)
\* C3: a sales report answered from the cache was computed for a request
\* with the same parameters (date range, grouping, product and user filter)
\* as the request it answers.
C3_CachedReportIsOfSameRequest ==
    \A t \in Tasks :
        (task[t].op = "sales_report" /\ task[t].pc = "done" /\ task[t].hit) =>
            task[t].src = task[t].req

\* the entry under key is the one cache_report wrote from a value JSON can represent
HoldsJson(key) ==
    /\ CacheKey(key) \in DOMAIN written
    /\ JsonRepresentable(written[CacheKey(key)].v)

\* C7: while the entry that cache_report(key, value, ttl) wrote is in place
\* (not expired, not overwritten, not invalidated) and value is
\* JSON-representable, get_cached_report(key) returns a value equal to value.
C7_CacheRoundTrip ==
    /\ \A key \in JsonNames :
           HoldsJson(key) => get_cached_report(kv, key) = Returned(written[CacheKey(key)].v)
    /\ (last.op = "get" /\ ~last.down /\ HoldsJson(last.key)) =>
           last.ret = Returned(written[CacheKey(last.key)].v)

\* a get has returned a container of containers that was put before
C7_Witness ==
    /\ last.op = "get"
    /\ ~last.down
    /\ HoldsJson(last.key)
    /\ written[CacheKey(last.key)].v \in Nested
    /\ last.ret = Returned(written[CacheKey(last.key)].v)

NotJsonPayloads == MalformedPayloads \cup NonStandardPayloads

\* C8: a get that the store answers returns None, and does not raise, when
\* the key does not exist and when the text stored under it is not valid JSON.
C8_NonJsonIsAbsent ==
    (/\ last.op = "get"
     /\ ~last.down
     /\ \/ ~Exists(kv, CacheKey(last.key))
        \/ kv[CacheKey(last.key)].v \in NotJsonPayloads)
        => last.ret = Returned(JNull)

\* C9: once invalidate_cache() with the default pattern has finished and no
\* cache entry was written since it started, no cache entry exists, every get
\* returns None, and the count it returned is the number of entries its DEL
\* removed, which is the number it found if none of them expired meanwhile.
C9_InvalidateDeletesAll ==
    (inval.pc = "done" /\ inval.pattern = DefaultPattern /\ inval.clean) =>
        /\ Keys(kv, DefaultPattern) = {}
        /\ \A key \in CacheNames : get_cached_report(kv, key) = Returned(JNull)
        /\ inval.result = Cardinality(inval.removed)
        /\ ~inval.aged => inval.removed = inval.keys

\* three entries were cached, invalidate removed all three, and a later get
\* found its key absent
C9_Witness ==
    /\ inval.pc = "done"
    /\ inval.pattern = DefaultPattern
    /\ inval.clean
    /\ inval.result = 3
    /\ inval.keys = {CacheKey(key) : key \in CacheNames}
    /\ last.op = "get"
    /\ ~last.down
    /\ last.ret = Returned(JNull)

\* C10: right after cache_report(key, value, ttl) has taken effect the entry
\* under key holds the serialization of value with exactly ttl seconds to
\* live, and get returns value, whatever was stored under key before.
C10_PutOverwrites ==
    (last.op = "put" /\ ~last.down) =>
        /\ Exists(kv, CacheKey(last.key))
        /\ kv[CacheKey(last.key)].v = Dumps(last.data)
        /\ TTL(kv, CacheKey(last.key)) = last.ttl
        /\ get_cached_report(kv, last.key) = Returned(last.data)

\* the put replaced an entry that had another payload and another remaining time
C10_Witness ==
    /\ last.op = "put"
    /\ ~last.down
    /\ last.over

(***************************************************************************)
(* The three reads against keys that were never written, have expired or   *)
(* were deleted.                                                           *)
(***************************************************************************)
NextReads ==
    \/ \E t \in Tasks, u \in {None, "u1"} : StartIncrementProductView(t, "p1", u)
    \/ \E t \in Tasks : increment_product_view(t)
    \/ \E t \in Tasks : StartTrackSaleRealtime(t, "p1", 5)
    \/ \E t \in Tasks : track_sale_realtime(t)
    \/ \E t \in Tasks : StartUpdateTopProducts(t, "p1", 1)
    \/ \E t \in Tasks : update_top_products(t)
    \/ \E t \in Tasks : StartGetRealtimeMetrics(t)
    \/ \E t \in Tasks : get_realtime_metrics(t)
    \/ \E t \in Tasks, d \in Dates : StartGetDailyStats(t, d)
    \/ \E t \in Tasks : get_daily_stats(t)
    \/ \E t \in Tasks, d \in Dates : StartGetProductStats(t, "p1", d)
    \/ \E t \in Tasks : get_product_stats(t)
    \/ \E t \in Tasks : StartFlushAllAnalytics(t)
    \/ \E t \in Tasks : flush_all_analytics(t)
    \/ Tick(DAY_TTL)

SpecReads == Init /\ [][NextReads]_vars

(***************************************************************************)
(* Sales and ranking bumps while time passes, half a day at a time.        *)
(***************************************************************************)
SaleTicks == {DAY_TTL \div 2}

NextExpiry ==
    \/ \E t \in Tasks : StartTrackSaleRealtime(t, "p1", 5)
    \/ \E t \in Tasks : track_sale_realtime(t)
    \/ \E t \in Tasks : StartUpdateTopProducts(t, "p1", 1)
    \/ \E t \in Tasks : update_top_products(t)
    \/ \E d \in SaleTicks : Tick(d)

SpecExpiry == Init /\ [][NextExpiry]_vars

(***************************************************************************)
(* record_view against a store whose replies may time out.                 *)
(***************************************************************************)
NextRetry ==
    \/ \E t \in Tasks, u \in {None, "u1"} : StartIncrementProductView(t, "p1", u)
    \/ \E t \in Tasks : increment_product_view(t)
    \/ \E t \in Tasks : TimeoutInView(t)

SpecRetry == Init /\ [][NextRetry]_vars

(***************************************************************************)
(* Sales of a day and of the next, concurrent.                             *)
(***************************************************************************)
NextSales ==
    \/ \E t \in Tasks, p \in Products, a \in Amounts : StartTrackSaleRealtime(t, p, a)
    \/ \E t \in Tasks : track_sale_realtime(t)
    \/ Midnight

SpecSales == Init /\ [][NextSales]_vars

(***************************************************************************)
(* Identified and anonymous views while time passes, 150 s at a time; the  *)
(* clock stops once a key of the day is 600 s old.                         *)
(***************************************************************************)
ActiveTicks == {ACTIVE_TTL \div 2}

Young(k) ==
    \/ kv[k].ttl = NoTTL
    \/ kv[k].ttl <= ACTIVE_TTL
    \/ kv[k].ttl > DAY_TTL - 2 * ACTIVE_TTL

ActiveViews == {<<"p1", "u1">>, <<"p2", "u2">>, <<"p1", None>>}

NextActive ==
    \/ \E t \in Tasks, v \in ActiveViews : StartIncrementProductView(t, v[1], v[2])
    \/ \E t \in Tasks : increment_product_view(t)
    \/ \E d \in ActiveTicks : (\A k \in DOMAIN kv : Young(k)) /\ Tick(d)

SpecActive == Init /\ [][NextActive]_vars

(***************************************************************************)
(* Stock updates of one product, concurrent, and of a product that does    *)
(* not exist.                                                              *)
(***************************************************************************)
NextStock ==
    \/ \E q \in StockQuantities : CreateProduct("p1", q)
    \/ \E t \in Tasks, p \in Products, o \in StockOperations, q \in StockQuantities :
           StartUpdateProductStock(t, p, o, q)
    \/ \E t \in Tasks : GetProductForStock(t)
    \/ \E t \in Tasks : update_stock(t)

SpecStock == Init /\ [][NextStock]_vars

(***************************************************************************)
(* Creations and SKU changes, concurrent, with SKUs that differ in case.   *)
(***************************************************************************)
SkuInputs == {<<"a">>, <<"A">>, <<"S", "p1">>, <<"s", "p1">>}

NextSku ==
    \/ CreateProduct("p1", 0)
    \/ \E t \in Tasks, sku \in SkuInputs : StartCreateProduct(t, sku)
    \/ \E t \in Tasks : create_product(t)
    \/ \E t \in Tasks, p \in {"p1", NewId(1)}, sku \in SkuInputs :
           StartUpdateProduct(t, p, [sku |-> sku, is_active |-> None])
    \/ \E t \in Tasks : update_product(t)

SpecSku == Init /\ [][NextSku]_vars

(***************************************************************************)
(* Deletions against reads and listings of two products.                   *)
(***************************************************************************)
NextDelete ==
    \/ \E p \in Products : CreateProduct(p, 0)
    \/ \E t \in Tasks, p \in Products : StartDeleteProduct(t, p)
    \/ \E t \in Tasks : delete_product(t)
    \/ \E t \in Tasks, p \in Products : StartReadProduct(t, p)
    \/ \E t \in Tasks : read_product(t)
    \/ \E t \in Tasks, b \in BOOLEAN : StartReadProducts(t, b)
    \/ \E t \in Tasks : read_products(t)

SpecDelete == Init /\ [][NextDelete]_vars

(***************************************************************************)
(* Activity rows against readers with the two roles.                       *)
(***************************************************************************)
NextActivities ==
    \/ \E row \in ActivityRows : track_user_activity(row)
    \/ \E t \in Tasks, role \in Roles, u \in {None, "u1", "u2"} :
           StartGetUserActivities(t, role, u)
    \/ \E t \in Tasks : get_user_activities(t)

SpecActivities == Init /\ [][NextActivities]_vars

(***************************************************************************)
(* Tracking requests of one product: the row, then the counters.           *)
(***************************************************************************)
NextTrack ==
    \/ \E t \in Tasks, u \in {None, "u1"} : StartTrackView(t, "p1", u)
    \/ \E t \in Tasks : StartTrackSale(t, "p1", 5)
    \/ \E t \in Tasks : GetAsyncRedis(t)
    \/ \E t \in Tasks : TrackInDb(t)
    \/ \E t \in Tasks : increment_product_view(t)
    \/ \E t \in Tasks : track_sale_realtime(t)

SpecTrack == Init /\ [][NextTrack]_vars

(***************************************************************************)
(* Reports of one key each, requested while rows are recorded and time     *)
(* passes.                                                                 *)
(***************************************************************************)
ReportTicks == {120, 180}

DaySalesRequest ==
    [start_date |-> 1, end_date |-> 2, group_by |-> "day", product_id |-> None, user_id |-> None]

NextReportTTL ==
    \/ \E row \in {r \in SaleRows : r.id = "s1"} : RecordSale(row)
    \/ \E row \in {r \in ViewRows : r.id = "v1"} : RecordView(row)
    \/ \E t \in Tasks : StartSalesReport(t, DaySalesRequest)
    \/ \E t \in Tasks, req \in ProductViewsReportRequests : StartProductViewsReport(t, req)
    \/ \E t \in Tasks : GetAsyncRedis(t)
    \/ \E t \in Tasks : generate_sales_report(t)
    \/ \E t \in Tasks : generate_product_views_report(t)
    \/ \E d \in ReportTicks : Tick(d)

SpecReportTTL == Init /\ [][NextReportTTL]_vars

(***************************************************************************)
(* Invalidation of the report cache next to the counters, the sets and the *)
(* ranking, with cache keys named after counters.                          *)
(***************************************************************************)
InvalidateNames == {<<"test_report">>, <<"daily", "views", "2024-01-01">>}

NextInvalidate ==
    \/ \E t \in Tasks : StartIncrementProductView(t, "p1", "u1")
    \/ \E t \in Tasks : increment_product_view(t)
    \/ \E t \in Tasks : StartUpdateTopProducts(t, "p1", 1)
    \/ \E t \in Tasks : update_top_products(t)
    \/ \E key \in InvalidateNames : CacheReport(key, JInt(1), 60)
    \/ InvalidateKeys(DefaultPattern)
    \/ InvalidateDelete

SpecInvalidate == Init /\ [][NextInvalidate]_vars

(***************************************************************************)
(* The dashboard endpoint against ranking bumps and cache entries named    *)
(* top_products:{date}.                                                    *)
(***************************************************************************)
TopEntry(p) ==
    JList(<<JDict(<<JPair(<<"p", "r", "o", "d", "u", "c", "t", "_", "i", "d">>, JStr(Chars(p))),
                    JPair(<<"v", "i", "e", "w", "s">>, JInt(7))>>)>>)

TopEntries == {TopEntry("p2"), JList(<<>>), JInt(1)}

NextRealtime ==
    \/ \E t \in Tasks : StartRealtimeMetricsEndpoint(t)
    \/ \E t \in Tasks : GetAsyncRedis(t)
    \/ \E t \in Tasks : CallGetRealtimeMetrics(t)
    \/ \E t \in Tasks : get_realtime_metrics(t)
    \/ \E t \in Tasks : ReplaceTopProducts(t)
    \/ \E t \in Tasks : StartUpdateTopProducts(t, "p1", 1)
    \/ \E t \in Tasks : update_top_products(t)
    \/ \E data \in TopEntries : CacheReport(<<"top_products", strftime(today)>>, data, 60)

SpecRealtime == Init /\ [][NextRealtime]_vars

(***************************************************************************)
(* The ranking: bumps of two products against the four products            *)
(* create_redis_test_data puts into the day's sorted set.                  *)
(***************************************************************************)
test_products == <<"prod_a", "prod_b", "prod_c", "prod_d">>
Yesterday(d) == IF d = 1 THEN "2023-12-31" ELSE strftime(d - 1)

\* one turn of the loop: score = (len(test_products) - i) * 15, i from 0
SeedTopProduct(i) ==
    /\ IF i = 1 THEN TRUE
       ELSE Score(kv, TopProductsKey(strftime(today)), test_products[i - 1]) > 0
    /\ LET score == (Len(test_products) - (i - 1)) * 15
       IN  kv' = ZAdd(ZAdd(kv, TopProductsKey(strftime(today)), score, test_products[i]),
                      TopProductsKey(Yesterday(today)), score \div 2, test_products[i])
    /\ UNCHANGED <<db, stock, catalog, today, task, cacheVars>>

TopDeltas == {10, 25, 30}

NextTop ==
    \/ \E i \in 1..Len(test_products) : SeedTopProduct(i)
    \/ \E t \in Tasks, p \in Products, v \in TopDeltas : StartUpdateTopProducts(t, p, v)
    \/ \E t \in Tasks : update_top_products(t)
    \/ \E t \in Tasks : StartGetRealtimeMetrics(t)
    \/ \E t \in Tasks : get_realtime_metrics(t)

SpecTop == Init /\ [][NextTop]_vars

(***************************************************************************)
(* The dashboard read over counters of any size.                           *)
(***************************************************************************)
ViewSeeds == {0, 3, 200}
SalesCountSeeds == {2, 5}

NextRate ==
    \/ \E v \in ViewSeeds : SeedDailyViews(v)
    \/ \E c \in SalesCountSeeds : SeedDailySalesCount(c)
    \/ \E t \in Tasks : StartGetRealtimeMetrics(t)
    \/ \E t \in Tasks : get_realtime_metrics(t)

SpecRate == Init /\ [][NextRate]_vars

(***************************************************************************)
(* Properties of the real-time counters.                                   *)
(***************************************************************************)
Quiescent == \A t \in Tasks : task[t].pc \in {"idle", "done"}

ViewCallsDone(p, d) ==
    {t \in Tasks : /\ task[t].op = "view" /\ task[t].pc = "done"
                   /\ task[t].pid = p /\ task[t].day = d}

ViewCallsOfDay(d) ==
    {t \in Tasks : task[t].op = "view" /\ task[t].pc = "done" /\ task[t].day = d}

C2_TouchedKeysHaveTTL ==
    \A t \in Tasks :
        (task[t].op = "view" /\ task[t].pc = "done") =>
            /\ TTL(kv, DailyViewsKey(task[t].day)) = DAY_TTL
            /\ TTL(kv, ProductViewsKey(task[t].pid, task[t].day)) = DAY_TTL
            /\ Truthy(task[t].uid) =>
                   /\ TTL(kv, UniqueVisitorsKey(task[t].day)) = DAY_TTL
                   /\ TTL(kv, ActiveUsersKey) = ACTIVE_TTL

\* C4: a tracking request that fails because the key-value store is
\* unreachable or fails has nonetheless committed its event row.
C4_EventRecordedWhenCountersFail ==
    \A t \in Tasks :
        (task[t].via = "endpoint" /\ task[t].pc = "failed") =>
            \E r \in db : r.id = t

InvalidInput(t) ==
    \/ task[t].op = "sale" /\ task[t].amount < 0
    \/ task[t].op \in {"view", "sale"} /\ task[t].pid = ""

\* C6: a call of the counter component with a negative sale amount or an
\* empty product id returns an error without any store command taking effect.
C6_InvalidInputRejected ==
    \A t \in Tasks :
        InvalidInput(t) => (task[t].n = 0 /\ task[t].pc # "done")

\* C5: the six values get_realtime_metrics returns are those of one store
\* state: the ranking it returns is the ranking as it stood when the five
\* counters were read.
C5_MetricsReadOneState ==
    \A t \in Tasks :
        (task[t].op = "metrics" /\ task[t].pc = "done") =>
            task[t].res.top_products = task[t].seen

MetricsRead(t) == task[t].op = "metrics" /\ task[t].pc \in {"zrevrange", "done"}

Abs(x) == IF x < 0 THEN 0 - x ELSE x

\* C11: the conversion_rate get_realtime_metrics returns is 0.0 when the view
\* counter it read is 0, and otherwise the percentage sales_count / views * 100
\* rounded to the nearest hundredth (views 200 and sales_count 5 give 2.5).
\* Rates are in hundredths of a percent.
C11_ConversionRate ==
    \A t \in Tasks :
        MetricsRead(t) =>
            LET views == task[t].res.today_views
                sales == task[t].res.sales_count
                rate == task[t].res.conversion_rate
            IN  /\ views = 0 => rate = 0
                /\ views > 0 => 2 * Abs(rate * views - sales * 10000) <= views
                /\ (views = 200 /\ sales = 5) => rate = 250

\* one call read 200 views and 5 sales, another read no views
C11_Witness ==
    \E t, u \in Tasks :
        /\ task[t].op = "metrics" /\ task[t].pc = "done"
        /\ task[t].res.today_views = 200
        /\ task[t].res.sales_count = 5
        /\ task[t].res.conversion_rate = 250
        /\ task[u].op = "metrics" /\ task[u].pc = "done"
        /\ task[u].res.today_views = 0
        /\ task[u].res.sales_count = 5
        /\ task[u].res.conversion_rate = 0

\* the ZINCRBY of call t has taken effect
Bumped(t) == task[t].op = "bump" /\ task[t].n >= 1

RECURSIVE BumpSum(_, _, _)
BumpSum(n, p, d) ==
    IF n = 0 THEN 0
    ELSE BumpSum(n - 1, p, d)
         + (IF Bumped(n) /\ task[n].pid = p /\ task[n].day = d THEN task[n].amount ELSE 0)

C12_ScoreIsSumOfDeltas ==
    \A d \in Dates, p \in Products :
        Score(kv, TopProductsKey(d), p) = BumpSum(MaxTasks, p, d)

Members(s, k) == IF Exists(s, k) THEN DOMAIN s[k].v ELSE {}

IsTopOf(top, s, k) ==
    /\ Len(top) = IF Cardinality(Members(s, k)) < 5 THEN Cardinality(Members(s, k)) ELSE 5
    /\ \A i \in 1..Len(top) :
           /\ top[i].product_id \in Members(s, k)
           /\ top[i].views = Score(s, k, top[i].product_id)
    /\ \A i, j \in 1..Len(top) :
           /\ i < j => top[i].views >= top[j].views
           /\ i # j => top[i].product_id # top[j].product_id
    /\ \A m \in Members(s, k) :
           (\A i \in 1..Len(top) : top[i].product_id # m) =>
               \A i \in 1..Len(top) : top[i].views >= Score(s, k, m)

C12_ReadReturnsTop5 ==
    \A t \in Tasks :
        (task[t].pc = "zrevrange" /\ task'[t].pc = "done") =>
            IsTopOf(task'[t].res.top_products, kv, TopProductsKey(task[t].day))

ZeroIfMissing(k, t, f) == ~Exists(kv, k) => task'[t].res[f] = 0

C13_MetricsPipeline(t) ==
    (task[t].pc = "pipeline" /\ task'[t].pc = "zrevrange") =>
        /\ ZeroIfMissing(DailyViewsKey(task[t].day), t, "today_views")
        /\ ZeroIfMissing(UniqueVisitorsKey(task[t].day), t, "unique_visitors")
        /\ ZeroIfMissing(DailySalesKey(task[t].day), t, "today_sales")
        /\ ZeroIfMissing(DailySalesCountKey(task[t].day), t, "sales_count")
        /\ ZeroIfMissing(ActiveUsersKey, t, "active_users")

C13_MetricsRanking(t) ==
    (task[t].pc = "zrevrange" /\ task'[t].pc = "done") =>
        (~Exists(kv, TopProductsKey(task[t].day)) => task'[t].res.top_products = <<>>)

C13_DailyStats(t) ==
    (task[t].pc = "stats_pipeline" /\ task'[t].pc = "done") =>
        /\ ZeroIfMissing(DailyViewsKey(task[t].day), t, "views")
        /\ ZeroIfMissing(UniqueVisitorsKey(task[t].day), t, "unique_visitors")
        /\ ZeroIfMissing(DailySalesKey(task[t].day), t, "sales_amount")
        /\ ZeroIfMissing(DailySalesCountKey(task[t].day), t, "sales_count")

C13_ProductStats(t) ==
    /\ (task[t].pc = "get_views" /\ task'[t].pc = "get_sales") =>
           ZeroIfMissing(ProductViewsKey(task[t].pid, task[t].day), t, "views")
    /\ (task[t].pc = "get_sales" /\ task'[t].pc = "done") =>
           ZeroIfMissing(ProductSalesKey(task[t].pid, task[t].day), t, "sales")

C13_ReadStep ==
    \A t \in Tasks :
        /\ C13_MetricsPipeline(t)
        /\ C13_MetricsRanking(t)
        /\ C13_DailyStats(t)
        /\ C13_ProductStats(t)

\* C13: a read that the store answers takes 0 for every counter and
\* cardinality whose key is missing at that moment (never written, expired or
\* deleted), 0.0 for every such amount and an empty top-products list for a
\* missing ranking, in read_realtime_metrics, read_daily_stats and
\* read_product_stats alike; a missing key makes no read fail.
C13_MissingKeysReadAsZero == [][C13_ReadStep]_vars

\* a sale of p1 was recorded, its keys are gone again, and product stats read
\* afterwards are all zero
C13_Witness ==
    \E t, u \in Tasks :
        /\ task[u].op = "sale" /\ task[u].pc = "done"
        /\ task[t].op = "product_stats" /\ task[t].pc = "done"
        /\ task[t].pid = task[u].pid /\ task[t].day = task[u].day
        /\ ~Exists(kv, ProductSalesKey(task[t].pid, task[t].day))
        /\ task[t].res.views = 0 /\ task[t].res.sales = 0

\* call t is at its EXPIRE of key k, the command takes effect on the key
Refreshes(t, pc, k) ==
    (task[t].pc = pc /\ task'[t].pc \notin {pc, "failed"} /\ Exists(kv, k)) =>
        TTL(kv', k) = DAY_TTL

C14_ExpireStep ==
    \A t \in Tasks :
        /\ Refreshes(t, "expire_sale_amount", DailySalesKey(task[t].day))
        /\ Refreshes(t, "expire_sale_count", DailySalesCountKey(task[t].day))
        /\ Refreshes(t, "expire_product_sales", ProductSalesKey(task[t].pid, task[t].day))
        /\ Refreshes(t, "expire_top", TopProductsKey(task[t].day))

\* C14: each write of record_sale (daily sales, daily sales count, per-product
\* sales) and of bump_top_products (ranking) leaves its key with 86400 s to
\* live from that write, whatever time the key had left: the expiry is
\* replaced, not added to.
C14_TTLLastWriteWins == [][C14_ExpireStep]_vars

\* a sale was recorded, half a day passed, and a second sale has rewritten the
\* daily sales amount (a full day to live again) but not yet the sales count
\* (still the half day the first sale left it)
C14_Witness ==
    \E t, u \in Tasks :
        /\ task[u].op = "sale" /\ task[u].pc = "done"
        /\ task[t].op = "sale" /\ task[t].pc = "sale_count" /\ task[t].day = task[u].day
        /\ IntOrZero(Get(kv, DailySalesKey(task[t].day))) = task[t].amount + task[u].amount
        /\ TTL(kv, DailySalesKey(task[t].day)) = DAY_TTL
        /\ TTL(kv, DailySalesCountKey(task[t].day)) = DAY_TTL \div 2

\* the SADD of view t into the day's unique-visitors set has taken effect
CountedVisit(t) ==
    /\ task[t].op = "view" /\ Truthy(task[t].uid)
    /\ \/ task[t].pc \in {"expire_unique", "sadd_active", "expire_active", "done"}
       \/ task[t].pc = "failed" /\ task[t].n >= 4

VisitorsOf(d) == {task[t].uid : t \in {x \in Tasks : CountedVisit(x) /\ task[x].day = d}}

\* C15: however many record_view calls of a day carry the same user_id, that
\* user counts once in the day's unique-visitor cardinality: the cardinality
\* is the number of distinct user ids among the day's identified views.
C15_VisitorCountedOnce ==
    \A d \in Dates : SCard(kv, UniqueVisitorsKey(d)) = Cardinality(VisitorsOf(d))

\* every task has run a view of the same user on the same day: one visitor
C15_Witness ==
    \E u \in Users, d \in Dates :
        /\ \A t \in Tasks : task[t].op = "view" /\ task[t].pc = "done"
                            /\ task[t].uid = u /\ task[t].day = d
        /\ Cardinality(Tasks) >= 2
        /\ SCard(kv, UniqueVisitorsKey(d)) = 1

\* C16: no store command of an operation is sent a second time: a command
\* that fails or times out ends the operation with an error, so a view that
\* returned normally has added exactly one to the daily view counter.
C16_NoCommandReissued ==
    /\ \A t \in Tasks : task[t].resent = 0
    /\ Quiescent =>
           \A d \in Dates :
               IntOrZero(Get(kv, DailyViewsKey(d))) <=
                   Cardinality({t \in Tasks : task[t].op = "view" /\ task[t].day = d})

\* C17: once the tracked views of a day have run to completion, each
\* product's score in the day's top-products ranking equals its per-product
\* daily view counter.
C17_RankingFollowsViews ==
    Quiescent =>
        \A d \in Dates, p \in Products :
            Score(kv, TopProductsKey(d), p) = IntOrZero(Get(kv, ProductViewsKey(p, d)))

\* an identified view has added its user to the active set and has not set
\* the expiry (yet, or ever: the call failed at that command)
ActiveExpiryPending(t) ==
    /\ task[t].op = "view" /\ Truthy(task[t].uid)
    /\ \/ task[t].pc = "expire_active"
       \/ task[t].pc = "failed" /\ task[t].n = 6

C18_LivesAtMost300 ==
    (\A t \in Tasks : ~ActiveExpiryPending(t)) =>
        (Exists(kv, ActiveUsersKey) =>
             (TTL(kv, ActiveUsersKey) >= 1 /\ TTL(kv, ActiveUsersKey) <= ACTIVE_TTL))

C18_ActiveStep ==
    /\ \A t \in Tasks :
           (task[t].pc = "expire_active" /\ task'[t].pc = "done"
                /\ Exists(kv, ActiveUsersKey)) =>
               TTL(kv', ActiveUsersKey) = ACTIVE_TTL
    /\ (Exists(kv, ActiveUsersKey) /\ Exists(kv', ActiveUsersKey)) =>
           kv[ActiveUsersKey].v \subseteq kv'[ActiveUsersKey].v
    /\ (task' = task /\ kv' # kv /\ Exists(kv, ActiveUsersKey)
            /\ TTL(kv, ActiveUsersKey) # NoTTL) =>
           (Exists(kv', ActiveUsersKey) =>
                TTL(kv', ActiveUsersKey) < TTL(kv, ActiveUsersKey))

SaleDone(t, d) == task[t].op = "sale" /\ task[t].pc = "done" /\ task[t].day = d

RECURSIVE SaleSum(_, _, _)
\* the amounts of the completed sales of day d among calls 1..n (of product p,
\* or of every product when p is None)
SaleSum(n, p, d) ==
    IF n = 0 THEN 0
    ELSE SaleSum(n - 1, p, d)
         + (IF SaleDone(n, d) /\ (p = None \/ task[n].pid = p) THEN task[n].amount ELSE 0)

RejectedForStock(t) ==
    /\ task[t].op = "stock" /\ task[t].pc = "done"
    /\ task[t].res = [status |-> 400, detail |-> "InsufficientStock"]

C20_NeverNegative ==
    /\ \A p \in DOMAIN stock : stock[p] >= 0
    /\ \A t \in Tasks : RejectedForStock(t) => task[t].n = 0

C20_CheckStep ==
    \A t \in Tasks :
        (/\ task[t].pc = "stock_get" /\ task'[t].pc # "stock_get"
         /\ task[t].operation = "subtract"
         /\ task[t].pid \in DOMAIN stock
         /\ task[t].amount > stock[task[t].pid]) =>
            (RejectedForStock(t))' /\ stock' = stock

\* C20: a subtract request of more than the stock the product has when the
\* request is checked is answered 400 and writes nothing, and stock_quantity
\* is never negative.
C20_OverSubtractRejected == []C20_NeverNegative /\ [][C20_CheckStep]_vars

\* the stock was set to 3 and a subtract of 5 was rejected: it is still 3
C20_Witness ==
    \E t, u \in Tasks :
        /\ task[u].op = "stock" /\ task[u].operation = "set" /\ task[u].amount = 3
        /\ task[u].pc = "done" /\ task[u].res.status = 200
        /\ RejectedForStock(t)
        /\ task[t].operation = "subtract" /\ task[t].amount = 5
        /\ task[t].pid = task[u].pid
        /\ stock[task[t].pid] = 3

\* SKUs without regard to case
LowerChar(c) == CASE c = "A" -> "a" [] c = "B" -> "b" [] c = "S" -> "s" [] OTHER -> c
Lower(s) == [i \in 1..Len(s) |-> LowerChar(s[i])]

C21_SkuUnique ==
    \A p, q \in DOMAIN catalog :
        Lower(catalog[p].sku) = Lower(catalog[q].sku) => p = q

C21_CreateStep ==
    \A t \in Tasks :
        (/\ task[t].op = "create" /\ task[t].pc = "get_by_sku"
         /\ task'[t].pc # "get_by_sku"
         /\ \E p \in DOMAIN catalog : Lower(catalog[p].sku) = Lower(task[t].body.sku)) =>
            /\ task'[t].pc = "done"
            /\ task'[t].res.status = 409
            /\ catalog' = catalog

Created(t) == task[t].op = "create" /\ task[t].pc = "done" /\ task[t].res.status = 201

\* C21: a creation whose SKU, compared without regard to case, is that of a
\* product existing when the request looks it up is answered 409 and inserts
\* nothing, such a request never inserts a row, and no two products ever
\* have the same SKU, concurrent creations included.
C21_DuplicateSkuRejected ==
    /\ []C21_SkuUnique
    /\ [](\A t \in Tasks : (task[t].op = "create" /\ task[t].pc = "done"
                               /\ task[t].res.status = 409) => task[t].n = 0)
    /\ [][C21_CreateStep]_vars

\* a product was created with SKU a (stored A) and the creation with SKU A
\* was answered 409: one product has that SKU
C21_Witness ==
    \E t, u \in Tasks :
        /\ Created(t) /\ task[t].body.sku = <<"a">>
        /\ task[u].op = "create" /\ task[u].pc = "done" /\ task[u].res.status = 409
        /\ task[u].body.sku = <<"A">>
        /\ BySku(<<"A">>) = {task[t].pid}

Deleted(t) == task[t].op = "delete" /\ task[t].pc = "done" /\ task[t].res.status = 204

\* the row is kept, inactive, and nothing else changes
C22_RemoveStep ==
    \A t \in Tasks :
        (task[t].pc = "delete_remove" /\ Deleted(t)') =>
            /\ DOMAIN catalog' = DOMAIN catalog
            /\ catalog'[task[t].pid] = [catalog[task[t].pid] EXCEPT !.is_active = FALSE]
            /\ \A q \in DOMAIN catalog : q # task[t].pid => catalog'[q] = catalog[q]
            /\ stock' = stock

\* what get-by-id and the two listings answer at the moment they read
C22_ReadStep ==
    \A t \in Tasks :
        /\ (task[t].pc = "read_get" /\ task[t].pid \in DOMAIN catalog) =>
               (task'[t].pc = "done" =>
                    /\ task'[t].res.status = 200
                    /\ task'[t].res.is_active = catalog[task[t].pid].is_active)
        /\ (task[t].pc = "list_items" /\ task'[t].pc = "list_count") =>
               \A p \in DOMAIN catalog :
                   p \in task'[t].seen <=>
                       (catalog[p].is_active \/ task[t].body.include_inactive)

\* rows are never dropped, and a product becomes inactive only by a DELETE
C22_RowsKept ==
    /\ \A t \in Tasks : Deleted(t) => task[t].pid \in DOMAIN catalog
    /\ \A p \in DOMAIN catalog :
           ~catalog[p].is_active => \E t \in Tasks : Deleted(t) /\ task[t].pid = p

\* C22: DELETE of an existing product keeps the row and sets is_active to
\* false, changing no other product; get-by-id answers the row with its
\* is_active, the default listing holds exactly the active products and the
\* listing with include_inactive holds every product.
C22_SoftDelete == []C22_RowsKept /\ [][C22_RemoveStep]_vars /\ [][C22_ReadStep]_vars

\* p1 was deleted while p2 exists, and a listing with include_inactive made
\* afterwards holds both
C22_Witness ==
    \E t, u \in Tasks :
        /\ Deleted(t) /\ task[t].pid = "p1"
        /\ ~catalog["p1"].is_active
        /\ "p2" \in DOMAIN catalog /\ catalog["p2"].is_active
        /\ task[u].op = "list" /\ task[u].pc = "done" /\ task[u].body.include_inactive
        /\ task[u].res.items = {"p1", "p2"}
        /\ get_multi(catalog, TRUE) = {"p2"}

\* C23: a GET /user-activities request whose token has a role other than
\* admin is answered 403 and is given no activity row; with the admin role
\* it is answered 200.
C23_AdminOnly ==
    \A t \in Tasks :
        (task[t].op = "user_activities" /\ task[t].pc = "done") =>
            /\ task[t].res.status = verify_admin_token(task[t].body)
            /\ task[t].body.role # "admin" => task[t].res.rows = {}

TrackingRequest(t) == task[t].via = "endpoint" /\ task[t].op \in {"view", "sale"}

TrackedRow(t) == [id |-> t, kind |-> task[t].op]

\* a request that has issued a counter command has its row committed
C24_RowBeforeCounters ==
    \A t \in Tasks : (TrackingRequest(t) /\ task[t].n > 0) => TrackedRow(t) \in db

\* the commit is a step of its own before any command of the request, and
\* every step of the request that touches the store finds the row committed
C24_TrackStep ==
    \A t \in Tasks :
        TrackingRequest(t) =>
            /\ (TrackedRow(t) \notin db /\ TrackedRow(t) \in db') =>
                   (task[t].n = 0 /\ kv' = kv)
            /\ (task'[t].n > task[t].n) => TrackedRow(t) \in db

\* C24: in a tracking request (view or sale) the row of the relational
\* store is committed before the first counter command is issued.
C24_CommitBeforeCounters == []C24_RowBeforeCounters /\ [][C24_TrackStep]_vars

\* a view request stopped after its first command and a finished sale request
C24_Witness ==
    \E t, u \in Tasks :
        /\ TrackingRequest(t) /\ task[t].op = "view" /\ task[t].n = 1 /\ task[t].pc = "failed"
        /\ TrackingRequest(u) /\ task[u].op = "sale" /\ task[u].pc = "done"
        /\ {TrackedRow(t), TrackedRow(u)} \subseteq db

ReportRequest(t) == task[t].op \in {"sales_report", "views_report"}

ReportTTL(op) == IF op = "sales_report" THEN 300 ELSE 120

\* the lookup comes first; an entry in place is served and the relational
\* store is not asked, no entry sends the request to the relational store
C25_LookupStep ==
    \A t \in Tasks :
        (ReportRequest(t) /\ task[t].pc = "body" /\ task'[t] # task[t]) =>
            IF CacheKey(task[t].cache_key) \in DOMAIN kv
            THEN /\ task'[t].pc \in {"done", "failed"}
                 /\ task'[t].pc = "done" =>
                        /\ task'[t].hit
                        /\ task'[t].data = Loads(kv[CacheKey(task[t].cache_key)].v).v
            ELSE /\ task'[t].pc \in {"query", "failed"}
                 /\ ~task'[t].hit

\* a miss computes the report from the rows and stores it under the
\* request's key with the TTL of its kind
C25_PopulateStep ==
    \A t \in Tasks :
        /\ (ReportRequest(t) /\ task[t].pc = "query" /\ task'[t] # task[t]) =>
               /\ task'[t].pc = "cache"
               /\ task'[t].data = IF task[t].op = "sales_report"
                                  THEN ResponseData(db, task[t].req)
                                  ELSE ViewsResponseData(db, task[t].req)
        /\ (ReportRequest(t) /\ task[t].pc = "cache" /\ task'[t].pc = "done") =>
               /\ DOMAIN kv' = DOMAIN kv \cup {CacheKey(task[t].cache_key)}
               /\ kv'[CacheKey(task[t].cache_key)] =
                      [v |-> Dumps(task[t].data), ttl |-> ReportTTL(task[t].op)]
               /\ \A k \in DOMAIN kv : k # CacheKey(task[t].cache_key) => kv'[k] = kv[k]

\* an entry lives at most the TTL of its kind
C25_EntryLifetime ==
    \A k \in DOMAIN kv :
        /\ k[3] = "sales_report" => kv[k].ttl \in 1..300
        /\ k[3] = "product_views" => kv[k].ttl \in 1..120

\* C25: a report request looks its key up in the cache first; on a miss it
\* computes the report from the relational store and stores it under its key
\* for 300 s (sales) or 120 s (product views); while the entry is in place a
\* request with the same key is answered with the stored document and the
\* relational store is not asked; once the entry has expired the request
\* computes the report again.
C25_CacheThenQuery ==
    []C25_EntryLifetime /\ [][C25_LookupStep]_vars /\ [][C25_PopulateStep]_vars

\* a sales report was computed and stored, 120 s later a second request
\* with the same key was answered from the entry
C25_Witness ==
    \E t, u \in Tasks :
        /\ task[t].op = "sales_report" /\ task[t].pc = "done" /\ ~task[t].hit
        /\ task[u].op = "sales_report" /\ task[u].pc = "done" /\ task[u].hit
        /\ task[u].cache_key = task[t].cache_key
        /\ CacheKey(task[u].cache_key) \in DOMAIN kv
        /\ kv[CacheKey(task[u].cache_key)].ttl = 180
        /\ task[u].data = Loads(Dumps(task[t].data)).v

\* the commands of the two operations, in the order they are awaited
ViewOrder == <<"incr_daily", "incr_product", "expire_product", "sadd_unique",
               "expire_unique", "sadd_active", "expire_active">>
SaleOrder == <<"sale_amount", "expire_sale_amount", "sale_count", "expire_sale_count",
               "product_sales", "expire_product_sales">>

IndexOf(order, pc) == CHOOSE i \in 1..Len(order) : order[i] = pc
InOrder(order, pc) == \E i \in 1..Len(order) : order[i] = pc

OrderOf(t) == IF task[t].op = "view" THEN ViewOrder ELSE SaleOrder
CommandsOf(t) ==
    IF task[t].op = "sale" THEN 6 ELSE IF Truthy(task[t].uid) THEN 7 ELSE 3

\* the calls whose first k commands took effect
ViewsPast(k) == {t \in Tasks : task[t].op = "view" /\ task[t].n >= k}
SalesPast(k) == {t \in Tasks : task[t].op = "sale" /\ task[t].n >= k}

\* key holds v exactly when some call in on has written it, with the expiry
\* sec exactly when some call in expired has set it
Holds(k, on, v, expired, sec) ==
    IF on = {} THEN k \notin DOMAIN kv
    ELSE /\ k \in DOMAIN kv
         /\ kv[k] = [v |-> v, ttl |-> IF expired = {} THEN NoTTL ELSE sec]

\* the store is exactly what the commands that took effect have written:
\* nothing of a failed call is taken back
C26_EffectsRemain ==
    LET d == strftime(today)
    IN  /\ Holds(DailyViewsKey(d), ViewsPast(1), Cardinality(ViewsPast(1)), {}, NoTTL)
        /\ Holds(ProductViewsKey("p1", d), ViewsPast(2), Cardinality(ViewsPast(2)),
                 ViewsPast(3), DAY_TTL)
        /\ Holds(UniqueVisitorsKey(d), ViewsPast(4), {task[t].uid : t \in ViewsPast(4)},
                 ViewsPast(5), DAY_TTL)
        /\ Holds(ActiveUsersKey, ViewsPast(6), {task[t].uid : t \in ViewsPast(6)},
                 ViewsPast(7), ACTIVE_TTL)
        /\ Holds(DailySalesKey(d), SalesPast(1), 5 * Cardinality(SalesPast(1)),
                 SalesPast(2), DAY_TTL)
        /\ Holds(DailySalesCountKey(d), SalesPast(3), Cardinality(SalesPast(3)),
                 SalesPast(4), DAY_TTL)
        /\ Holds(ProductSalesKey("p1", d), SalesPast(5), 5 * Cardinality(SalesPast(5)),
                 SalesPast(6), DAY_TTL)

\* a call is at its k-th command after k-1 commands took effect, is done
\* after all of them, and has failed after fewer
C26_Position ==
    \A t \in Tasks :
        task[t].op \in {"view", "sale"} =>
            /\ InOrder(OrderOf(t), task[t].pc) => task[t].n = IndexOf(OrderOf(t), task[t].pc) - 1
            /\ task[t].pc = "done" => task[t].n = CommandsOf(t)
            /\ task[t].pc = "failed" => task[t].n < CommandsOf(t)

\* the command that fails changes nothing and ends the call as failed
C26_FailStep ==
    \A t \in Tasks :
        /\ (InOrder(OrderOf(t), task[t].pc) /\ task'[t].n = task[t].n /\ task'[t] # task[t]) =>
               (task'[t].pc = "failed" /\ kv' = kv)
        /\ task[t].pc = "failed" => task'[t] = task[t]

\* C26: increment_product_view and track_sale_realtime are not transactional:
\* when the store fails at the k-th command, the effects of commands 1..k-1
\* stay in the store and the operation ends in failure.
C26_NotTransactional ==
    [](C26_EffectsRemain /\ C26_Position) /\ [][C26_FailStep]_vars

\* a view failed at its second command: the daily counter is incremented,
\* the counter of the product is not
C26_Witness ==
    \E t \in Tasks :
        /\ task[t].op = "view" /\ task[t].pc = "failed" /\ task[t].n = 1
        /\ ViewsPast(1) = {t}
        /\ kv[DailyViewsKey(strftime(today))].v = 1
        /\ ProductViewsKey("p1", strftime(today)) \notin DOMAIN kv

\* "analytics:cache:..." as RedisKeys.CACHE_PREFIX forms it
IsCacheEntry(k) == Len(k) >= 2 /\ k[1] = "analytics" /\ k[2] = "cache"

\* the keys of RedisKeys that are not cache entries, of the day and product here
CounterKeys ==
    {DailyViewsKey(strftime(today)), ProductViewsKey("p1", strftime(today)),
     UniqueVisitorsKey(strftime(today)), ActiveUsersKey, TopProductsKey(strftime(today))}

\* no step of invalidate_cache touches a key that is not a cache entry
C27_InvalidateStep ==
    (last'.op \in {"keys", "del"} /\ task' = task) =>
        /\ \A k \in DOMAIN kv : ~IsCacheEntry(k) => (k \in DOMAIN kv' /\ kv'[k] = kv[k])
        /\ \A k \in DOMAIN kv' : k \in DOMAIN kv /\ kv'[k] = kv[k]

\* what an invalidation removed are cache entries
C27_RemovedAreEntries ==
    inval.pc = "done" => \A k \in inval.removed : IsCacheEntry(k) /\ k \notin CounterKeys

\* C27: invalidate_cache with its default pattern removes report-cache
\* entries only; every counter, visitor set, active-users set and ranking
\* keeps its value and expiry, whatever the cache keys are named.
C27_InvalidateFrame == []C27_RemovedAreEntries /\ [][C27_InvalidateStep]_vars

\* an invalidation removed an entry named like a counter while the
\* counters, both sets and the ranking were in the store, and they still are
C27_Witness ==
    /\ inval.pc = "done"
    /\ CacheKey(<<"daily", "views", "2024-01-01">>) \in inval.removed
    /\ CounterKeys \subseteq DOMAIN kv
    /\ kv[DailyViewsKey(strftime(today))].v = 1
    /\ \A k \in DOMAIN kv : ~IsCacheEntry(k)

Succeeded(t) == task[t].op = "stock" /\ task[t].pc = "done" /\ task[t].res.status = 200

StockDelta(t) ==
    IF task[t].operation = "add" THEN task[t].amount ELSE 0 - task[t].amount

RECURSIVE StockSum(_)
StockSum(n) == IF n = 0 THEN 0 ELSE StockDelta(n) + StockSum(n - 1)

\* C28: when all the stock requests of a product are add or subtract requests
\* and all have succeeded, the stock is the stock the product was created
\* with plus what was added minus what was subtracted.
C28_NoLostUpdate ==
    (/\ "p1" \in DOMAIN stock
     /\ \A t \in Tasks : /\ Succeeded(t)
                         /\ task[t].pid = "p1"
                         /\ task[t].operation \in {"add", "subtract"}) =>
        \E initial \in {q \in StockQuantities : q >= 0} :
            stock["p1"] = initial + StockSum(MaxTasks)

\* C29: in every reachable state, for every date, the daily unique-visitors
\* set has at most as many members as the daily view counter counts.
C29_VisitorsAtMostViews ==
    \A d \in Dates : SCard(kv, UniqueVisitorsKey(d)) <= IntOrZero(Get(kv, DailyViewsKey(d)))

\* the document under top_products:{d} when it is a list with members
IsNonEmptyList(doc) == doc.k = "list" /\ doc.items # <<>>

TopProductsEntry(d) ==
    LET k == CacheKey(<<"top_products", d>>)
    IN  IF k \in DOMAIN kv /\ Loads(kv[k].v).ok /\ IsNonEmptyList(Loads(kv[k].v).v)
        THEN Loads(kv[k].v).v
        ELSE JList(<<>>)

\* the step that answers: the field is the entry of the day, or empty
C30_ReplaceStep ==
    \A t \in Tasks :
        (task[t].pc = "top_cache" /\ task'[t].pc = "done") =>
            task'[t].res.top_products = TopProductsEntry(strftime(today))

\* C30: top_products of a GET /realtime-metrics response is the cache entry
\* top_products:{today} when it exists and has members, and the empty list
\* otherwise; the ranking read from the sorted set is not in the response.
C30_TopProductsFromCache == [][C30_ReplaceStep]_vars

\* the ranking read held p1, the cache held an entry naming p2, and the
\* response carries the entry
C30_Witness ==
    \E t \in Tasks :
        /\ task[t].op = "metrics" /\ task[t].via = "endpoint" /\ task[t].pc = "done"
        /\ Len(task[t].seen) = 1 /\ task[t].seen[1].product_id = "p1"
        /\ task[t].res.top_products = TopEntry("p2")

====
